---- MODULE Spec2Model ----
(***************************************************************************)
(* Progression engine of the Warcraft plugin: one Hero (an Entity with xp  *)
(* and a roster of Skill entities), the operations give_xp, take_xp, the   *)
(* xp setter, upgrade_skill and downgrade_skill, and the listener          *)
(* notifications they emit.  Every action is one whole call of a method;   *)
(* the variable `call` keeps what the last call was and the state it       *)
(* started from, `prev` the call before it, `emitted` the notifications    *)
(* the last call sent, in order, and `invoked` the Skill.execute calls the *)
(* last execute_skills made, in order.  `variant` is a skill class being   *)
(* defined: its decorated callbacks and, once _SkillMeta.__init__ has run, *)
(* its _event_callbacks registry.  `foreign` is a skill instance that is   *)
(* not in hero.skills: its class_id and its level.  `players` is the       *)
(* registry of players (team, owned heroes, active hero), `event` the game *)
(* event or player operation handled last, `dispatched` the execute_skills *)
(* calls its handler made, in order, and `roster` a hero class while its   *)
(* skill classes are declared and a hero of it is constructed.  `loop` is   *)
(* a give_xp or take_xp call followed statement by statement, and          *)
(* `database` the three tables of the plugin's database, and `menu` the   *)
(* options the change hero menu and the spend skills menu held for each    *)
(* player when they were last built for him: hero classes, and skill       *)
(* objects.                                                                *)
(***************************************************************************)
EXTENDS Integers, Sequences, FiniteSets, TLC

VARIABLES hero, call, prev, emitted, invoked, variant, foreign,
          players, event, dispatched, roster, loop, database, menu

vars == <<hero, call, prev, emitted, invoked, variant, foreign,
          players, event, dispatched, roster, loop, database, menu>>

\* the variables of the player registry, the dispatcher, the hero class, the
\* call in progress and the database
world == <<players, event, dispatched, roster, loop, database, menu>>

(***************************************************************************)
(* Bounds of the model.                                                    *)
(***************************************************************************)
\* largest total experience (banked xp plus the quotas already consumed)
MaxTotalXp == 400
\* largest negative xp a level-0 hero is driven to
MaxDebt == 100
\* max_level of the hero variant that has a finite one
HeroFiniteMax == 2
\* max_level of the skill variant that has a finite one
SkillFiniteMax == 1
\* most decorated callbacks in a skill class being defined
MaxCallbacks == 2
\* most event names given to one callback(...) decorator
MaxEventsPerCallback == 2
\* largest value assigned to a level or handed to a constructor
MaxAssignedLevel == 4
\* players in the registry
NumPlayers == 2
\* the level of the heroes written to the table heroes
MaxSavedLevel == 1
\* players whose heroes and active hero are written one player at a time
MaxSavedPlayers == 1
\* largest hero level in the persisted data of a player
MaxPersistedLevel == 2
\* most uses of the skill decorator on one hero class
MaxDeclarations == 3
\* required_level of the skill variant that declares one
SkillRequiredLevel == 2
\* largest level of a hero handed to a call that is followed step by step
MaxLoopLevel == 4
\* largest total experience of a hero that gains its xp from kills
MaxKillXp == 100
\* most persisted skill rows of one hero
MaxSkillRows == 3
\* largest level a skill is taken to through an option of a menu
MaxOptionLevel == 2

(***************************************************************************)
(* Entity                                                                  *)
(***************************************************************************)
\* math.inf, the default max_level: a value above every level and every xp
\* the bounded model reaches, so that  Inf < v  and  v = Inf  are false
\* and  v >= Inf  is false for each of them, as in Python.
Inf == 1000000

\* The hero variants of the model: max_level per variant.
HeroMaxLevels == {Inf, HeroFiniteMax}

\* The hero type's skill_classes, in declaration order (class_id of each).
skill_classes == <<"Bonus_Health", "MySkill">>

SkillIds == {skill_classes[i] : i \in 1..Len(skill_classes)}

\* max_level of each skill variant.
skill_max_level(class_id) ==
    IF class_id = "Bonus_Health" THEN SkillFiniteMax ELSE Inf

\* required_level of each skill variant: Bonus_Health keeps the default of
\* Entity, MySkill declares its own.
skill_required_level(class_id) ==
    IF class_id = "Bonus_Health" THEN 0 ELSE SkillRequiredLevel

\* the level setter without its test for a negative value
level_setter_raises_no_negative(value, max_level) ==
    max_level < value

\* Entity.level setter: the ValueError conditions.
level_setter_raises(value, max_level) ==
    \/ value < 0
    \/ max_level < value

\* Entity.level setter: the level the entity has after entity.level = value
level_setter(level, max_level, value) ==
    IF level_setter_raises(value, max_level)
    THEN [level |-> level, raised |-> TRUE]
    ELSE [level |-> value, raised |-> FALSE]

\* Entity.__init__: self._level = level
Entity_init(level) == [level |-> level, raised |-> FALSE]

\* Entity.__init__(self, level=0) handed the positional arguments args: more
\* than one is a TypeError and no entity is initialised
Entity_call(args) ==
    IF Len(args) > 1 THEN [level |-> 0, raised |-> TRUE]
    ELSE Entity_init(IF args = <<>> THEN 0 ELSE args[1])

\* the entity classes that leave Entity.__init__ in place: Entity itself and
\* a subclass with a finite max_level
EntityClasses == {"Entity", "Capped_Entity"}

\* max_level of the entity classes: Entity keeps math.inf
entity_max_level(class_id) ==
    IF class_id = "Entity" THEN Inf ELSE HeroFiniteMax

\* on_max_level written with > for ==
on_max_level_strict(level, max_level) == level > max_level

\* Entity.on_max_level
on_max_level(level, max_level) == level = max_level

(***************************************************************************)
(* Skill                                                                   *)
(***************************************************************************)
\* callback(*event_names): the decorated function with its _events
callback(name, event_names) == [name |-> name, events |-> event_names]

\* cls._event_callbacks[event_name] = attr
Put(registry, event_name, attr) ==
    [e \in DOMAIN registry \cup {event_name} |->
        IF e = event_name THEN attr ELSE registry[e]]

\* The two loops of _SkillMeta.__init__: for each decorated attribute, in
\* the order of the class body, for each of its event names, store the
\* attribute under the name.  From attribute i, event j on.
RECURSIVE register(_, _, _, _)
register(registry, attrs, i, j) ==
    IF i > Len(attrs) THEN [raised |-> FALSE, registry |-> registry]
    ELSE IF j > Len(attrs[i].events)
    THEN register(registry, attrs, i + 1, 1)
    ELSE register(Put(registry, attrs[i].events[j], attrs[i].name),
                  attrs, i, j + 1)

\* _SkillMeta.__init__: the class's _event_callbacks
SkillMeta_init(attrs) == register(<<>>, attrs, 1, 1)

\* The decorated callbacks of the hero's skill variants: Bonus_Health as in
\* the Skill docstring, MySkill as in the _SkillMeta docstring.
declared_callbacks(class_id) ==
    IF class_id = "Bonus_Health"
    THEN <<callback("_boost_health", <<"player_spawn">>)>>
    ELSE <<callback("my_callback", <<"player_spawn", "player_attack">>),
           callback("another_callback", <<"player_jump">>)>>

event_callbacks(class_id) ==
    SkillMeta_init(declared_callbacks(class_id)).registry

\* Skill.execute: the callbacks it runs, in order
Skill_execute(class_id, event_name) ==
    IF event_name \in DOMAIN event_callbacks(class_id)
    THEN <<event_callbacks(class_id)[event_name]>>
    ELSE <<>>

(***************************************************************************)
(* Hero                                                                    *)
(***************************************************************************)
QuotaBase == 80
QuotaStep == 15

\* xp_quota taking the step of the level above
xp_quota_next_level(level, max_level) ==
    IF on_max_level(level, max_level) THEN Inf
    ELSE QuotaBase + QuotaStep * (level + 1)

\* Hero.xp_quota
xp_quota(level, max_level) ==
    IF on_max_level(level, max_level) THEN Inf
    ELSE QuotaBase + QuotaStep * level

\* Hero.skill_points: level - sum(skill.level for skill in skills.values())
RECURSIVE used_points(_, _)
used_points(skills, i) ==
    IF i > Len(skill_classes) THEN 0
    ELSE skills[skill_classes[i]] + used_points(skills, i + 1)

skill_points(self) == self.level - used_points(self.skills, 1)

\* give_xp's loop with > for >=
RECURSIVE give_xp_loop_gt(_, _, _)
give_xp_loop_gt(level, xp, max_level) ==
    IF ~on_max_level(level, max_level) /\ xp > xp_quota(level, max_level)
    THEN give_xp_loop_gt(level + 1, xp - xp_quota(level, max_level),
                         max_level)
    ELSE [level |-> level, xp |-> xp]

\* give_xp's loop comparing xp with 80 + 15 * level whatever max_level is
RECURSIVE give_xp_loop_no_max(_, _, _)
give_xp_loop_no_max(level, xp, max_level) ==
    IF xp >= QuotaBase + QuotaStep * level
    THEN give_xp_loop_no_max(level + 1,
                             xp - (QuotaBase + QuotaStep * level), max_level)
    ELSE [level |-> level, xp |-> xp]

\* give_xp's loop with an if for the while: at most one level per call
give_xp_loop_once(level, xp, max_level) ==
    IF ~on_max_level(level, max_level) /\ xp >= xp_quota(level, max_level)
    THEN [level |-> level + 1, xp |-> xp - xp_quota(level, max_level)]
    ELSE [level |-> level, xp |-> xp]

\* The while loop of Hero.give_xp, from (level, xp) after xp += amount.
RECURSIVE give_xp_loop(_, _, _)
give_xp_loop(level, xp, max_level) ==
    IF ~on_max_level(level, max_level) /\ xp >= xp_quota(level, max_level)
    THEN give_xp_loop(level + 1, xp - xp_quota(level, max_level), max_level)
    ELSE [level |-> level, xp |-> xp]

\* self._xp += self.xp_quota: adding math.inf gives math.inf
plus_quota(xp, quota) == IF quota = Inf THEN Inf ELSE xp + quota

\* take_xp's loop adding the quota of the level it leaves
RECURSIVE take_xp_loop_left_quota(_, _, _)
take_xp_loop_left_quota(level, xp, max_level) ==
    IF level > 0 /\ xp < 0
    THEN IF level_setter_raises(level - 1, max_level)
         THEN [level |-> level, raised |-> TRUE, xp |-> xp]
         ELSE take_xp_loop_left_quota(level - 1,
                           xp + xp_quota(level, max_level), max_level)
    ELSE [level |-> level, raised |-> FALSE, xp |-> xp]

\* take_xp's loop with <= for <
RECURSIVE take_xp_loop_le(_, _, _)
take_xp_loop_le(level, xp, max_level) ==
    IF level > 0 /\ xp <= 0
    THEN IF level_setter_raises(level - 1, max_level)
         THEN [level |-> level, raised |-> TRUE, xp |-> xp]
         ELSE take_xp_loop_le(level - 1,
                           xp + xp_quota(level - 1, max_level), max_level)
    ELSE [level |-> level, raised |-> FALSE, xp |-> xp]

\* take_xp's loop never taking the first level
RECURSIVE take_xp_loop_keep_first(_, _, _)
take_xp_loop_keep_first(level, xp, max_level) ==
    IF level > 1 /\ xp < 0
    THEN IF level_setter_raises(level - 1, max_level)
         THEN [level |-> level, raised |-> TRUE, xp |-> xp]
         ELSE take_xp_loop_keep_first(level - 1,
                           xp + xp_quota(level - 1, max_level), max_level)
    ELSE [level |-> level, raised |-> FALSE, xp |-> xp]

\* The while loop of Hero.take_xp, from (level, xp) after xp -= amount.
\* self.level -= 1 goes through the Entity.level setter, which may raise
\* and then leaves the loop with what was done so far.
RECURSIVE take_xp_loop(_, _, _)
take_xp_loop(level, xp, max_level) ==
    IF level > 0 /\ xp < 0
    THEN IF level_setter_raises(level - 1, max_level)
         THEN [level |-> level, raised |-> TRUE, xp |-> xp]
         ELSE take_xp_loop(level - 1,
                           plus_quota(xp, xp_quota(level - 1, max_level)),
                           max_level)
    ELSE [level |-> level, raised |-> FALSE, xp |-> xp]

\* A notification as a listener receives it: the hero as it is when notified.
HeroNotification(kind, self, levels) ==
    [hero |-> self, kind |-> kind, levels |-> levels, skill |-> ""]

SkillNotification(kind, self, class_id) ==
    [hero |-> self, kind |-> kind, levels |-> 0, skill |-> class_id]

\* give_xp without the check of the amount
give_xp_unchecked(self, amount) ==
    LET looped == give_xp_loop(self.level, self.xp + amount, self.max_level)
        after == [self EXCEPT !.level = looped.level, !.xp = looped.xp]
        level_difference == after.level - self.level
    IN  [hero |-> after,
         emitted |-> IF level_difference > 0
                     THEN <<HeroNotification("OnHeroLevelUp", after,
                                             level_difference)>>
                     ELSE <<>>,
         raised |-> FALSE]

\* give_xp notifying once per level gained
give_xp_notify_each(self, amount) ==
    IF amount < 0
    THEN [hero |-> self, emitted |-> <<>>, raised |-> TRUE]
    ELSE LET looped == give_xp_loop(self.level, self.xp + amount,
                                    self.max_level)
             after == [self EXCEPT !.level = looped.level, !.xp = looped.xp]
         IN  [hero |-> after,
              emitted |-> [i \in 1..(after.level - self.level) |->
                              HeroNotification("OnHeroLevelUp", after, 1)],
              raised |-> FALSE]

\* Hero.give_xp: the result of one call
give_xp(self, amount) ==
    IF amount < 0
    THEN [hero |-> self, emitted |-> <<>>, raised |-> TRUE]
    ELSE LET initial_level == self.level
             looped == give_xp_loop(self.level, self.xp + amount,
                                    self.max_level)
             after == [self EXCEPT !.level = looped.level, !.xp = looped.xp]
             level_difference == after.level - initial_level
         IN  [hero |-> after,
              emitted |-> IF level_difference > 0
                          THEN <<HeroNotification("OnHeroLevelUp", after,
                                                  level_difference)>>
                          ELSE <<>>,
              raised |-> FALSE]

\* take_xp flooring xp at 0 once the hero is on level 0
take_xp_clamped(self, amount) ==
    IF amount < 0
    THEN [hero |-> self, emitted |-> <<>>, raised |-> TRUE]
    ELSE LET looped == take_xp_loop(self.level, self.xp - amount,
                                    self.max_level)
             after == [self EXCEPT !.level = looped.level,
                                   !.xp = IF looped.xp < 0 THEN 0
                                          ELSE looped.xp]
             level_difference == self.level - after.level
         IN  [hero |-> after,
              emitted |-> IF level_difference > 0 /\ ~looped.raised
                          THEN <<HeroNotification("OnHeroLevelDown", after,
                                                  level_difference)>>
                          ELSE <<>>,
              raised |-> looped.raised]

\* Hero.take_xp: the result of one call
take_xp(self, amount) ==
    IF amount < 0
    THEN [hero |-> self, emitted |-> <<>>, raised |-> TRUE]
    ELSE LET initial_level == self.level
             looped == take_xp_loop(self.level, self.xp - amount,
                                    self.max_level)
             after == [self EXCEPT !.level = looped.level, !.xp = looped.xp]
             level_difference == initial_level - after.level
         IN  IF looped.raised
             THEN [hero |-> after, emitted |-> <<>>, raised |-> TRUE]
             ELSE [hero |-> after,
                   emitted |-> IF level_difference > 0
                               THEN <<HeroNotification("OnHeroLevelDown",
                                                       after,
                                                       level_difference)>>
                               ELSE <<>>,
                   raised |-> FALSE]

\* the xp setter storing the value without levelling
xp_setter_plain(self, value) ==
    [hero |-> [self EXCEPT !.xp = value], emitted |-> <<>>, raised |-> FALSE]

\* Hero.xp setter: two independent ifs, the second reads xp again.
xp_setter(self, value) ==
    LET taken == IF value < self.xp
                 THEN take_xp(self, self.xp - value)
                 ELSE [hero |-> self, emitted |-> <<>>, raised |-> FALSE]
    IN  IF taken.raised THEN taken
        ELSE IF value > taken.hero.xp
             THEN LET given == give_xp(taken.hero, value - taken.hero.xp)
                  IN  [given EXCEPT !.emitted = taken.emitted \o @]
             ELSE taken

\* can_upgrade_skill without the test of the skill points
can_upgrade_skill_any_points(self, class_id) ==
    /\ class_id \in DOMAIN self.skills
    /\ ~on_max_level(self.skills[class_id], skill_max_level(class_id))

\* can_upgrade_skill with >= for > on the skill points
can_upgrade_skill_ge(self, class_id) ==
    /\ class_id \in DOMAIN self.skills
    /\ skill_points(self) >= 0
    /\ ~on_max_level(self.skills[class_id], skill_max_level(class_id))

\* Hero.can_upgrade_skill, for the hero's own instance of class_id
can_upgrade_skill(self, class_id) ==
    /\ class_id \in DOMAIN self.skills
    /\ skill_points(self) > 0
    /\ ~on_max_level(self.skills[class_id], skill_max_level(class_id))

\* upgrade_skill without the can_upgrade_skill test
upgrade_skill_ungated(self, class_id) ==
    IF level_setter_raises(self.skills[class_id] + 1,
                           skill_max_level(class_id))
    THEN [hero |-> self, emitted |-> <<>>, raised |-> TRUE]
    ELSE LET after == [self EXCEPT !.skills[class_id] = @ + 1]
         IN  [hero |-> after,
              emitted |-> <<SkillNotification("OnSkillUpgrade", after,
                                              class_id)>>,
              raised |-> FALSE]

\* Hero.upgrade_skill
upgrade_skill(self, class_id) ==
    IF ~can_upgrade_skill(self, class_id)
    THEN [hero |-> self, emitted |-> <<>>, raised |-> TRUE]
    ELSE IF level_setter_raises(self.skills[class_id] + 1,
                                skill_max_level(class_id))
    THEN [hero |-> self, emitted |-> <<>>, raised |-> TRUE]
    ELSE LET after == [self EXCEPT !.skills[class_id] = @ + 1]
         IN  [hero |-> after,
              emitted |-> <<SkillNotification("OnSkillUpgrade", after,
                                              class_id)>>,
              raised |-> FALSE]

\* can_downgrade_skill with >= for >
can_downgrade_skill_ge(self, class_id) ==
    /\ class_id \in DOMAIN self.skills
    /\ self.skills[class_id] >= 0

\* Hero.can_downgrade_skill
can_downgrade_skill(self, class_id) ==
    /\ class_id \in DOMAIN self.skills
    /\ self.skills[class_id] > 0

\* downgrade_skill notifying before it lowers the level
downgrade_skill_notify_first(self, class_id) ==
    IF ~can_downgrade_skill(self, class_id)
    THEN [hero |-> self, emitted |-> <<>>, raised |-> TRUE]
    ELSE [hero |-> [self EXCEPT !.skills[class_id] = @ - 1],
          emitted |-> <<SkillNotification("OnSkillDowngrade", self,
                                          class_id)>>,
          raised |-> FALSE]

\* Hero.downgrade_skill
downgrade_skill(self, class_id) ==
    IF ~can_downgrade_skill(self, class_id)
    THEN [hero |-> self, emitted |-> <<>>, raised |-> TRUE]
    ELSE IF level_setter_raises(self.skills[class_id] - 1,
                                skill_max_level(class_id))
    THEN [hero |-> self, emitted |-> <<>>, raised |-> TRUE]
    ELSE LET after == [self EXCEPT !.skills[class_id] = @ - 1]
         IN  [hero |-> after,
              emitted |-> <<SkillNotification("OnSkillDowngrade", after,
                                              class_id)>>,
              raised |-> FALSE]

\* the elements of a list
Elements(list) == {list[i] : i \in 1..Len(list)}

\* a skill class object: the module that defines it and its __qualname__.
\* Two classes are the same object when both agree
SkillClass(module, qualname) == [module |-> module, qualname |-> qualname]

\* Entity.class_id of a class that does not override it: cls.__qualname__
Entity_class_id(cls) == cls.qualname

\* _HeroMeta.skill appending without the test for a class already added
HeroMeta_skill_unchecked(classes, skill_class) ==
    [skill_classes |-> Append(classes, skill_class), raised |-> FALSE]

\* _HeroMeta.skill on a hero class whose skill_classes is `classes`:
\* `skill_class in cls.skill_classes` compares the class objects
HeroMeta_skill(classes, skill_class) ==
    IF skill_class \in Elements(classes)
    THEN [skill_classes |-> classes, raised |-> TRUE]
    ELSE [skill_classes |-> Append(classes, skill_class), raised |-> FALSE]

\* instance.skills[skill_class.class_id] = skill_class() on an OrderedDict,
\* kept as the list of the classes of its values in key order: a new key
\* goes to the end, a present key keeps its place and takes the new value
OrderedPut(skills, skill_class) ==
    IF \E k \in 1..Len(skills) :
           Entity_class_id(skills[k]) = Entity_class_id(skill_class)
    THEN [k \in 1..Len(skills) |->
             IF Entity_class_id(skills[k]) = Entity_class_id(skill_class)
             THEN skill_class ELSE skills[k]]
    ELSE Append(skills, skill_class)

\* Skill.__init__(self, owner, level=0) handed the positional arguments
\* args: without owner a TypeError, with it super().__init__(owner, level)
\* hands Entity.__init__ two arguments
Skill_init(args) ==
    IF args = <<>> THEN [level |-> 0, raised |-> TRUE]
    ELSE Entity_call(<<args[1], IF Len(args) > 1 THEN args[2] ELSE 0>>)

\* the loop of _HeroMeta.__call__ from the i-th skill class on: the
\* classes of the values of instance.skills, in key order.  skill_class()
\* is Skill.__init__ without arguments unless the skill classes define an
\* __init__ of their own that takes none (own_init); a TypeError ends the
\* construction
RECURSIVE HeroMeta_call(_, _, _, _)
HeroMeta_call(skills, classes, i, own_init) ==
    IF i > Len(classes) THEN [raised |-> FALSE, skills |-> skills]
    ELSE IF ~own_init /\ Skill_init(<<>>).raised
    THEN [raised |-> TRUE, skills |-> skills]
    ELSE HeroMeta_call(OrderedPut(skills, classes[i]), classes, i + 1,
                       own_init)

\* Hero.__init__(self, owner, level, xp): super().__init__(owner, level)
\* hands Entity.__init__ two positional arguments, which raises TypeError
\* before _xp and skills are set: no hero is constructed
Hero_init(max_level, owner, level, xp) ==
    LET entity == Entity_call(<<owner, level>>)
    IN  IF entity.raised THEN [emitted |-> <<>>, raised |-> TRUE]
        ELSE [hero |-> [max_level |-> max_level,
                        level |-> entity.level,
                        skills |-> <<>>,
                        xp |-> xp],
              emitted |-> <<>>,
              raised |-> FALSE]

\* hero.level = value
hero_level_setter(self, value) ==
    LET res == level_setter(self.level, self.max_level, value)
    IN  [hero |-> [self EXCEPT !.level = res.level],
         emitted |-> <<>>,
         raised |-> res.raised]

\* hero.skills[class_id].level = value
skill_level_setter(self, class_id, value) ==
    LET res == level_setter(self.skills[class_id], skill_max_level(class_id),
                            value)
    IN  [hero |-> [self EXCEPT !.skills = [@ EXCEPT ![class_id] = res.level]],
         emitted |-> <<>>,
         raised |-> res.raised]

\* Hero.can_upgrade_skill, for a skill instance that is not in self.skills
can_upgrade_skill_instance(self, skill) ==
    /\ skill.class_id \in DOMAIN self.skills
    /\ skill_points(self) > 0
    /\ ~on_max_level(skill.level, skill_max_level(skill.class_id))

\* Hero.upgrade_skill, for a skill instance that is not in self.skills:
\* skill.level += 1 acts on the instance handed in
upgrade_skill_instance(self, skill) ==
    IF ~can_upgrade_skill_instance(self, skill)
    THEN [hero |-> self, emitted |-> <<>>, raised |-> TRUE, skill |-> skill]
    ELSE IF level_setter_raises(skill.level + 1,
                                skill_max_level(skill.class_id))
    THEN [hero |-> self, emitted |-> <<>>, raised |-> TRUE, skill |-> skill]
    ELSE [hero |-> self,
          emitted |-> <<SkillNotification("OnSkillUpgrade", self,
                                          skill.class_id)>>,
          raised |-> FALSE,
          skill |-> [skill EXCEPT !.level = @ + 1]]

\* Hero.can_downgrade_skill, for a skill instance that is not in self.skills
can_downgrade_skill_instance(self, skill) ==
    /\ skill.class_id \in DOMAIN self.skills
    /\ skill.level > 0

\* Hero.downgrade_skill, for a skill instance that is not in self.skills
downgrade_skill_instance(self, skill) ==
    IF ~can_downgrade_skill_instance(self, skill)
    THEN [hero |-> self, emitted |-> <<>>, raised |-> TRUE, skill |-> skill]
    ELSE IF level_setter_raises(skill.level - 1,
                                skill_max_level(skill.class_id))
    THEN [hero |-> self, emitted |-> <<>>, raised |-> TRUE, skill |-> skill]
    ELSE [hero |-> self,
          emitted |-> <<SkillNotification("OnSkillDowngrade", self,
                                          skill.class_id)>>,
          raised |-> FALSE,
          skill |-> [skill EXCEPT !.level = @ - 1]]

\* One Skill.execute call made by execute_skills, with the callbacks it ran
Execution(class_id, event_name) ==
    [event |-> event_name,
     skill |-> class_id,
     callbacks |-> Skill_execute(class_id, event_name)]

\* execute_skills without the level test
RECURSIVE execute_skills_any_level(_, _, _)
execute_skills_any_level(self, event_name, i) ==
    IF i > Len(skill_classes) THEN <<>>
    ELSE <<Execution(skill_classes[i], event_name)>>
             \o execute_skills_any_level(self, event_name, i + 1)

\* execute_skills leaving the loop after the first skill it executes
RECURSIVE execute_skills_first_only(_, _, _)
execute_skills_first_only(self, event_name, i) ==
    IF i > Len(skill_classes) THEN <<>>
    ELSE IF self.skills[skill_classes[i]] > 0
    THEN <<Execution(skill_classes[i], event_name)>>
    ELSE execute_skills_first_only(self, event_name, i + 1)

\* Hero.execute_skills: the Skill.execute calls it makes, from the i-th
\* entry of self.skills (an OrderedDict filled in skill_classes order) on
RECURSIVE execute_skills(_, _, _)
execute_skills(self, event_name, i) ==
    IF i > Len(skill_classes) THEN <<>>
    ELSE (IF self.skills[skill_classes[i]] > 0
          THEN <<Execution(skill_classes[i], event_name)>>
          ELSE <<>>)
             \o execute_skills(self, event_name, i + 1)

(***************************************************************************)
(* Player registry and event dispatcher                                    *)
(***************************************************************************)
\* a reference to the hero of class class_id held by the player `owner`
HeroRef(owner, class_id) == [class_id |-> class_id, owner |-> owner]

\* Player.__init__: self._hero = None
NoneHero == HeroRef(0, "None")

\* _event_name_conversions
event_name_conversions ==
    [name \in {"player_death", "player_hurt"} |->
        IF name = "player_death" THEN <<"player_kill", "player_death">>
        ELSE <<"player_attack", "player_victim">>]

\* players.from_userid(userid), for a userid of a player in the registry
from_userid(registry, userid) == registry[userid]

\* one call <hero>.execute_skills(event_name, event_args) of a handler, with
\* event_args['player']
Dispatch(hero_ref, event_name, player) ==
    [hero |-> hero_ref, event |-> event_name, player |-> player]

\* _execute_individual_skills without the test of the team
execute_individual_skills_any_team(registry, name, userid) ==
    LET player == from_userid(registry, userid)
    IN  IF player.hero = NoneHero
        THEN [dispatched |-> <<>>, raised |-> TRUE]
        ELSE [dispatched |-> <<Dispatch(player.hero, name, userid)>>,
              raised |-> FALSE]

\* _execute_individual_skills: the execute_skills calls it makes; it raises
\* AttributeError when player.hero is None
execute_individual_skills(registry, name, userid) ==
    LET player == from_userid(registry, userid)
    IN  IF player.team \in {2, 3}
        THEN IF player.hero = NoneHero
             THEN [dispatched |-> <<>>, raised |-> TRUE]
             ELSE [dispatched |-> <<Dispatch(player.hero, name, userid)>>,
                   raised |-> FALSE]
        ELSE [dispatched |-> <<>>, raised |-> FALSE]

\* what _execute_interaction_skills does once it has its two event names
interaction_dispatch(registry, event_names, userid, attacker) ==
    IF from_userid(registry, attacker).hero = NoneHero
    THEN [dispatched |-> <<>>, raised |-> TRUE]
    ELSE LET first == Dispatch(from_userid(registry, attacker).hero,
                               event_names[1], attacker)
         IN  IF from_userid(registry, userid).hero = NoneHero
             THEN [dispatched |-> <<first>>, raised |-> TRUE]
             ELSE [dispatched |->
                       <<first,
                         Dispatch(from_userid(registry, userid).hero,
                                  event_names[2], userid)>>,
                   raised |-> FALSE]

\* _execute_interaction_skills returning early only for an absent attacker
execute_interaction_skills_self(registry, name, userid, attacker) ==
    IF attacker = 0
    THEN [dispatched |-> <<>>, raised |-> FALSE]
    ELSE IF name \notin DOMAIN event_name_conversions
    THEN [dispatched |-> <<>>, raised |-> TRUE]
    ELSE interaction_dispatch(registry, event_name_conversions[name],
                              userid, attacker)

\* _execute_interaction_skills handing the victim's name to the attacker
execute_interaction_skills_swapped(registry, name, userid, attacker) ==
    IF attacker = 0 \/ attacker = userid
    THEN [dispatched |-> <<>>, raised |-> FALSE]
    ELSE IF name \notin DOMAIN event_name_conversions
    THEN [dispatched |-> <<>>, raised |-> TRUE]
    ELSE interaction_dispatch(registry,
                              <<event_name_conversions[name][2],
                                event_name_conversions[name][1]>>,
                              userid, attacker)

\* _execute_interaction_skills falling back on the raw name
execute_interaction_skills_default(registry, name, userid, attacker) ==
    IF attacker = 0 \/ attacker = userid
    THEN [dispatched |-> <<>>, raised |-> FALSE]
    ELSE IF name \notin DOMAIN event_name_conversions
    THEN interaction_dispatch(registry, <<name, name>>, userid, attacker)
    ELSE interaction_dispatch(registry, event_name_conversions[name],
                              userid, attacker)

\* _execute_interaction_skills: the execute_skills calls it makes; the
\* lookup of a raw name the table lacks raises KeyError, and it raises
\* AttributeError when a hero is None
execute_interaction_skills(registry, name, userid, attacker) ==
    IF attacker = 0 \/ attacker = userid
    THEN [dispatched |-> <<>>, raised |-> FALSE]
    ELSE IF name \notin DOMAIN event_name_conversions
    THEN [dispatched |-> <<>>, raised |-> TRUE]
    ELSE interaction_dispatch(registry, event_name_conversions[name],
                              userid, attacker)

\* the hero classes of the server, in the order of the `heroes` dictionary
\* (filled by the hero modules of the server, none of which is in the
\* repository); they are classes whose own __init__ accepts
\* heroes[hero_id](player, level, xp), since a class that inherits
\* Hero.__init__ raises TypeError on every call
catalogue == <<"Hero_A", "Hero_B", "Hero_C">>

CatalogueIds == {catalogue[i] : i \in 1..Len(catalogue)}

\* required_level of the hero classes: Hero_A keeps the default of Entity
required_level(class_id) ==
    IF class_id = "Hero_A" THEN 0
    ELSE IF class_id = "Hero_B" THEN 1
    ELSE 3

\* the keys of a player's heroes
HeroIds(heroes) == {heroes[i].class_id : i \in 1..Len(heroes)}

\* Player.calculate_total_level
RECURSIVE calculate_total_level(_)
calculate_total_level(heroes) ==
    IF heroes = <<>> THEN 0
    ELSE Head(heroes).level + calculate_total_level(Tail(heroes))

\* _new_player, "Load heroes": the rows of known hero classes become heroes
\* with the persisted level and xp; KeyError of an unknown class is
\* suppressed
RECURSIVE load_heroes(_)
load_heroes(rows) ==
    IF rows = <<>> THEN <<>>
    ELSE (IF Head(rows).class_id \in CatalogueIds THEN <<Head(rows)>>
          ELSE <<>>) \o load_heroes(Tail(rows))

\* the unlocking loop of _new_player with < for <=
RECURSIVE unlock_heroes_strict(_, _, _)
unlock_heroes_strict(heroes, total_level, i) ==
    IF i > Len(catalogue) THEN heroes
    ELSE IF catalogue[i] \in HeroIds(heroes)
    THEN unlock_heroes_strict(heroes, total_level, i + 1)
    ELSE IF required_level(catalogue[i]) < total_level
    THEN unlock_heroes_strict(
             Append(heroes, [class_id |-> catalogue[i], level |-> 0,
                             xp |-> 0]),
             total_level, i + 1)
    ELSE unlock_heroes_strict(heroes, total_level, i + 1)

\* _new_player, "Give the player all heroes available by his total level",
\* from the i-th hero class of the catalogue on
RECURSIVE unlock_heroes(_, _, _)
unlock_heroes(heroes, total_level, i) ==
    IF i > Len(catalogue) THEN heroes
    ELSE IF catalogue[i] \in HeroIds(heroes)
    THEN unlock_heroes(heroes, total_level, i + 1)
    ELSE IF required_level(catalogue[i]) <= total_level
    THEN unlock_heroes(
             Append(heroes, [class_id |-> catalogue[i], level |-> 0,
                             xp |-> 0]),
             total_level, i + 1)
    ELSE unlock_heroes(heroes, total_level, i + 1)

\* isinstance(value, Hero): None and other values are references to no owner
IsHero(value) == value.owner # 0

\* Player.hero setter
hero_setter(player, value) ==
    IF ~IsHero(value) THEN [raised |-> TRUE, player |-> player]
    ELSE IF value.class_id \notin HeroIds(player.heroes)
    THEN [raised |-> TRUE, player |-> player]
    ELSE [raised |-> FALSE, player |-> [player EXCEPT !.hero = value]]

\* _new_player: the player it returns; the lookup of a persisted active hero
\* the player does not have raises KeyError, next() of no hero StopIteration
new_player(index, rows, active_hero_id) ==
    LET loaded == load_heroes(rows)
        total_level == calculate_total_level(loaded)
        heroes == unlock_heroes(loaded, total_level, 1)
        player == [hero |-> NoneHero, team |-> 0, heroes |-> heroes]
    IN  IF active_hero_id # "None"
        THEN IF active_hero_id \notin HeroIds(heroes)
             THEN [raised |-> TRUE, player |-> player]
             ELSE hero_setter(player, HeroRef(index, active_hero_id))
        ELSE IF heroes = <<>>
             THEN [raised |-> TRUE, player |-> player]
             ELSE hero_setter(player, HeroRef(index, heroes[1].class_id))

\* the loop of _on_change_hero_menu_build from the i-th hero class on: the
\* classes whose option is selectable, in the order of the options
RECURSIVE change_hero_menu_options(_, _, _)
change_hero_menu_options(heroes, total_level, i) ==
    IF i > Len(catalogue) THEN <<>>
    ELSE (IF \/ catalogue[i] \in HeroIds(heroes)
             \/ required_level(catalogue[i]) <= total_level
          THEN <<catalogue[i]>> ELSE <<>>)
            \o change_hero_menu_options(heroes, total_level, i + 1)

\* _on_change_hero_menu_build: menu.clear(), then player.hero.name, which
\* raises AttributeError for the hero None, then the options
change_hero_menu_build(player) ==
    IF player.hero = NoneHero THEN [raised |-> TRUE, options |-> <<>>]
    ELSE [raised |-> FALSE,
          options |-> change_hero_menu_options(
                          player.heroes,
                          calculate_total_level(player.heroes), 1)]

\* _on_change_hero_menu_select for the hero class hero_id; it tests nothing
\* of what the menu tested when it was built, and player.hero.class_id
\* raises AttributeError for the hero None
change_hero_menu_select(index, player, hero_id) ==
    IF player.hero = NoneHero
    THEN [raised |-> TRUE, player |-> player]
    ELSE IF hero_id = player.hero.class_id
    THEN [raised |-> FALSE, player |-> player]
    ELSE LET heroes == IF hero_id \notin HeroIds(player.heroes)
                       THEN Append(player.heroes,
                                   [class_id |-> hero_id, level |-> 0,
                                    xp |-> 0])
                       ELSE player.heroes
         IN  hero_setter([player EXCEPT !.heroes = heroes],
                         HeroRef(index, hero_id))

(***************************************************************************)
(* Inputs of the calls                                                     *)
(***************************************************************************)
\* amounts given to give_xp / take_xp: a kill (30), a headshot kill (45),
\* exactly quota(0), exactly quota(0) + quota(1), more than the first three
\* quotas together (80 + 95 + 110 + 15), zero and a negative amount
Amounts == {-1, 0, 30, 45, 80, 175, 300}

\* values assigned to hero.xp
XpValues == {-15, 0, 60, 200}

\* event names handed to execute_skills; no skill registers player_death
EventNames == {"player_spawn", "player_jump", "player_attack", "player_death"}

\* event names used in the callback(...) decorators of a class being defined
DecoratorEvents == {"player_spawn", "player_jump"}

\* names of the decorated functions of a class body, in order
CallbackNames == <<"my_callback", "another_callback", "third_callback">>

\* the class bodies being defined: up to MaxCallbacks decorated functions,
\* each with up to MaxEventsPerCallback event names
EventTuples ==
    UNION {[1..n -> DecoratorEvents] : n \in 0..MaxEventsPerCallback}

ClassBodies ==
    UNION {{[i \in 1..n |-> callback(CallbackNames[i], t[i])] :
               t \in [1..n -> EventTuples]} : n \in 0..MaxCallbacks}

\* the events _execute_individual_skills is registered for
IndividualEvents == {"player_jump", "player_spawn", "player_disconnect"}

\* the events _execute_interaction_skills is registered for
InteractionEvents == {"player_death", "player_hurt"}

\* the raw names handed to _execute_interaction_skills: the registered ones
\* and one the table has no entry for, as when the handler is registered for
\* one more event
RawInteractionEvents == InteractionEvents \cup {"player_blind"}

\* the persisted heroes of a player: a row (class_id, level, xp) or none for
\* each hero class of the catalogue and for Hero_X, a class the server no
\* longer has
PersistedIds == <<"Hero_A", "Hero_B", "Hero_C", "Hero_X">>

PersistedLevels == 0..MaxPersistedLevel

RECURSIVE Rows(_, _)
Rows(level_of, i) ==
    IF i > Len(PersistedIds) THEN <<>>
    ELSE (IF level_of[i] >= 0
          THEN <<[class_id |-> PersistedIds[i], level |-> level_of[i],
                  xp |-> 0]>>
          ELSE <<>>) \o Rows(level_of, i + 1)

\* rows and active hero id as the plugin saves them: the active hero is one
\* of the persisted heroes, and there is none for a player never saved
PersistedData ==
    {[rows |-> Rows(level_of, 1), active |-> active] :
        level_of \in [1..Len(PersistedIds) -> PersistedLevels \cup {-1}],
        active \in {PersistedIds[i] : i \in 1..Len(PersistedIds)}
                       \cup {"None"}}

\* the values assigned to player.hero: None, a value that is no hero, and
\* the hero of any class held by any player
AssignedHeroes ==
    {NoneHero, HeroRef(0, "not_a_hero")}
        \cup {HeroRef(owner, class_id) :
                 owner \in 1..NumPlayers, class_id \in CatalogueIds}

\* teams of a player: unassigned, spectator, and the two playing teams
Teams == 0..3

\* experience a hero has had in total: xp plus the quotas of the levels below
RECURSIVE QuotaBelow(_)
QuotaBelow(level) ==
    IF level <= 0 THEN 0
    ELSE QuotaBase + QuotaStep * (level - 1) + QuotaBelow(level - 1)

TotalXp(self) == self.xp + QuotaBelow(self.level)

InBounds(self) ==
    /\ TotalXp(self) <= MaxTotalXp
    /\ self.xp >= -MaxDebt

(***************************************************************************)
(* State machine                                                           *)
(***************************************************************************)
NoCall == [event |-> "",
           raised |-> FALSE,
           skill |-> "",
           amount |-> 0,
           op |-> "init",
           result |-> FALSE,
           pre |-> [level |-> 0, xp |-> 0]]

\* the call of a hero class that raised: no hero was constructed
ConstructRaised == [NoCall EXCEPT !.op = "construct", !.raised = TRUE]

\* values assigned to a level or handed to a constructor as the level
AssignedLevels == -2..MaxAssignedLevel

\* no skill instance outside the hero is at hand
NoForeign == [class_id |-> "", level |-> 0]

\* skill instances outside hero.skills: another hero's instance of the
\* roster's Bonus_Health, or an instance of a variant the roster lacks
ForeignSkills ==
    {[class_id |-> c, level |-> l] :
        c \in {"Bonus_Health", "Foreign_Skill"}, l \in 0..SkillFiniteMax}

\* no player is in the registry, no event was handled, no hero class is
\* being declared
NoPlayers == <<>>

NoEvent == [raised |-> FALSE,
            name |-> "",
            userid |-> 0,
            attacker |-> 0,
            arg |-> <<>>]

NoRoster == [skill_classes |-> <<>>,
             raised |-> FALSE,
             skills |-> <<>>,
             done |-> <<>>,
             constructed |-> FALSE]

\* no give_xp or take_xp is being followed
NoLoop == [emitted |-> 0,
           max_level |-> 0,
           level |-> 0,
           xp |-> 0,
           amount |-> 0,
           initial_level |-> 0,
           op |-> "",
           state |-> "idle",
           initial_xp |-> 0]

\* the tables players, heroes and skills as _Database.__init__ creates them
NoDatabase == [players |-> {}, skills |-> {}, heroes |-> {}]

\* change_hero_menu and spend_skills_menu were built for no player yet
NoMenu == [change_hero |-> [i \in 1..NumPlayers |-> <<>>],
           spend_skills |-> [i \in 1..NumPlayers |-> <<>>]]

Idle ==
    /\ players = NoPlayers
    /\ event = NoEvent
    /\ dispatched = <<>>
    /\ roster = NoRoster
    /\ loop = NoLoop
    /\ database = NoDatabase
    /\ menu = NoMenu

\* no skill class is being defined
NoVariant == [raised |-> FALSE,
              registry |-> <<>>,
              attrs |-> <<>>,
              defined |-> FALSE]

\* What is kept of the call before the last one: a give_xp, take_xp or
\* downgrade_skill that returned, with its argument and the (level, xp) it
\* started from.
Previous(c) ==
    IF c.op \in {"give_xp", "take_xp", "downgrade_skill"} /\ ~c.raised
    THEN [c EXCEPT !.pre = [level |-> c.pre.level, xp |-> c.pre.xp]]
    ELSE NoCall

\* Hero.__init__ of a freshly unlocked hero, and _HeroMeta.__call__ giving it
\* one instance of each skill class at level 0.
Init ==
    /\ \E m \in HeroMaxLevels :
          hero = [max_level |-> m,
                  level |-> 0,
                  skills |-> [s \in SkillIds |-> 0],
                  xp |-> 0]
    /\ call = NoCall
    /\ prev = NoCall
    /\ emitted = <<>>
    /\ invoked = <<>>
    /\ variant = NoVariant
    /\ foreign = NoForeign
    /\ Idle

Record(op, amount, class_id, res) ==
    /\ InBounds(res.hero)
    /\ hero' = res.hero
    /\ emitted' = res.emitted
    /\ invoked' = <<>>
    /\ call' = [event |-> "",
                raised |-> res.raised,
                skill |-> class_id,
                amount |-> amount,
                op |-> op,
                result |-> ~res.raised,
                pre |-> hero]
    /\ prev' = Previous(call)
    /\ UNCHANGED <<variant, foreign, world>>

GiveXp == \E amount \in Amounts :
    Record("give_xp", amount, "", give_xp(hero, amount))

TakeXp == \E amount \in Amounts :
    Record("take_xp", amount, "", take_xp(hero, amount))

SetXp == \E value \in XpValues :
    Record("xp_setter", value, "", xp_setter(hero, value))

UpgradeSkill == \E class_id \in SkillIds :
    Record("upgrade_skill", 0, class_id, upgrade_skill(hero, class_id))

DowngradeSkill == \E class_id \in SkillIds :
    Record("downgrade_skill", 0, class_id, downgrade_skill(hero, class_id))

Query(op, class_id, answer) ==
    /\ hero' = hero
    /\ emitted' = <<>>
    /\ invoked' = <<>>
    /\ call' = [event |-> "",
                raised |-> FALSE,
                skill |-> class_id,
                amount |-> 0,
                op |-> op,
                result |-> answer,
                pre |-> hero]
    /\ prev' = Previous(call)
    /\ UNCHANGED <<variant, foreign, world>>

CanUpgradeSkill == \E class_id \in SkillIds :
    Query("can_upgrade_skill", class_id, can_upgrade_skill(hero, class_id))

CanDowngradeSkill == \E class_id \in SkillIds :
    Query("can_downgrade_skill", class_id,
          can_downgrade_skill(hero, class_id))

\* Hero.execute_skills for one event; the callbacks act on the game, not on
\* the hero.
ExecuteSkills == \E event_name \in EventNames :
    /\ hero' = hero
    /\ emitted' = <<>>
    /\ invoked' = execute_skills(hero, event_name, 1)
    /\ call' = [event |-> event_name,
                raised |-> FALSE,
                skill |-> "",
                amount |-> 0,
                op |-> "execute_skills",
                result |-> TRUE,
                pre |-> hero]
    /\ prev' = Previous(call)
    /\ UNCHANGED <<variant, foreign, world>>

Next ==
    \/ GiveXp
    \/ TakeXp
    \/ SetXp
    \/ UpgradeSkill
    \/ DowngradeSkill
    \/ CanUpgradeSkill
    \/ CanDowngradeSkill
    \/ ExecuteSkills

Spec == Init /\ [][Next]_vars

(***************************************************************************)
(* A hero that only gains: give_xp, assignments that raise xp, and the     *)
(* skill operations; no take_xp and no assignment below the current xp     *)
(***************************************************************************)
\* hero.xp = value with value >= hero.xp
RaiseXp == \E value \in XpValues :
    /\ value >= hero.xp
    /\ Record("xp_setter", value, "", xp_setter(hero, value))

NextGain ==
    \/ GiveXp
    \/ RaiseXp
    \/ UpgradeSkill
    \/ DowngradeSkill

SpecGain == Init /\ [][NextGain]_vars

(***************************************************************************)
(* The spend-skills menu                                                   *)
(***************************************************************************)
\* _on_spend_skills_menu_select for the option of the hero's skill class_id:
\* upgrade_skill if can_upgrade_skill, else nothing; the menu is returned
spend_skills_menu_select(self, class_id) ==
    IF can_upgrade_skill(self, class_id)
    THEN upgrade_skill(self, class_id)
    ELSE [hero |-> self, emitted |-> <<>>, raised |-> FALSE]

\* the options _on_spend_skills_menu_build appends, one per skill of the
\* hero in roster order: whether the text is the owned one, and whether the
\* option is highlighted and selectable
spend_skills_menu_build(self) ==
    [i \in 1..Len(skill_classes) |->
        [skill |-> skill_classes[i],
         owned |-> skill_required_level(skill_classes[i]) <= self.level,
         selectable |-> can_upgrade_skill(self, skill_classes[i])]]

SpendSkillsMenuSelect == \E i \in 1..Len(skill_classes) :
    LET option == spend_skills_menu_build(hero)[i]
    IN  Record("spend_skills_menu_select", 0, option.skill,
               spend_skills_menu_select(hero, option.skill))

NextSpend ==
    \/ GiveXp
    \/ UpgradeSkill
    \/ CanUpgradeSkill
    \/ SpendSkillsMenuSelect

SpecSpend == Init /\ [][NextSpend]_vars

(***************************************************************************)
(* give_xp and take_xp followed statement by statement                     *)
(***************************************************************************)
\* the condition of the while loop of give_xp
give_xp_condition(l) ==
    ~on_max_level(l.level, l.max_level)
        /\ l.xp >= xp_quota(l.level, l.max_level)

\* the body of the while loop of give_xp
give_xp_body(l) ==
    [l EXCEPT !.xp = @ - xp_quota(l.level, l.max_level), !.level = @ + 1]

\* the condition of the while loop of take_xp
take_xp_condition(l) == l.level > 0 /\ l.xp < 0

\* the body of take_xp's loop adding the quota and keeping the level
take_xp_body_keep_level(l) ==
    IF level_setter_raises(l.level - 1, l.max_level)
    THEN [l EXCEPT !.state = "raised"]
    ELSE [l EXCEPT !.xp = @ + xp_quota(l.level - 1, l.max_level)]

\* the body of the while loop of take_xp: the level setter may raise, which
\* ends the call
take_xp_body(l) ==
    IF level_setter_raises(l.level - 1, l.max_level)
    THEN [l EXCEPT !.state = "raised"]
    ELSE [l EXCEPT !.level = @ - 1,
                   !.xp = plus_quota(@, xp_quota(l.level - 1, l.max_level))]

\* the statements before the loop: the test of the amount, initial_level
\* and the change of _xp
enter(op, level, xp, max_level, amount) ==
    [emitted |-> 0,
     max_level |-> max_level,
     level |-> level,
     xp |-> IF amount < 0 THEN xp
            ELSE IF op = "give_xp" THEN xp + amount ELSE xp - amount,
     amount |-> amount,
     initial_level |-> level,
     op |-> op,
     state |-> IF amount < 0 THEN "raised" ELSE "looping",
     initial_xp |-> xp]

\* the statements after the loop: one notification if the level changed
leave(l) ==
    [l EXCEPT !.state = "returned",
              !.emitted = IF l.level # l.initial_level THEN 1 ELSE 0]

\* the heroes a call is made on: any level a constructor accepts, below 0
\* and above max_level included, and any xp, negative or above the quota
LoopLevels == -1..MaxLoopLevel

LoopXps == {-40, 0, 79, 200}

InitLoop ==
    /\ hero = [max_level |-> Inf,
               level |-> 0,
               skills |-> [s \in SkillIds |-> 0],
               xp |-> 0]
    /\ call = NoCall
    /\ prev = NoCall
    /\ emitted = <<>>
    /\ invoked = <<>>
    /\ variant = NoVariant
    /\ foreign = NoForeign
    /\ Idle

Follow(l) ==
    /\ loop' = l
    /\ UNCHANGED <<hero, call, prev, emitted, invoked, variant, foreign,
                   players, event, dispatched, roster, database, menu>>

BeginGiveXp ==
    /\ loop.state # "looping"
    /\ \E level \in LoopLevels, xp \in LoopXps, m \in HeroMaxLevels,
          amount \in Amounts :
          Follow(enter("give_xp", level, xp, m, amount))

BeginTakeXp ==
    /\ loop.state # "looping"
    /\ \E level \in LoopLevels, xp \in LoopXps, m \in HeroMaxLevels,
          amount \in Amounts :
          Follow(enter("take_xp", level, xp, m, amount))

GiveXpIteration ==
    /\ loop.state = "looping" /\ loop.op = "give_xp"
    /\ give_xp_condition(loop)
    /\ Follow(give_xp_body(loop))

TakeXpIteration ==
    /\ loop.state = "looping" /\ loop.op = "take_xp"
    /\ take_xp_condition(loop)
    /\ Follow(take_xp_body(loop))

GiveXpReturn ==
    /\ loop.state = "looping" /\ loop.op = "give_xp"
    /\ ~give_xp_condition(loop)
    /\ Follow(leave(loop))

TakeXpReturn ==
    /\ loop.state = "looping" /\ loop.op = "take_xp"
    /\ ~take_xp_condition(loop)
    /\ Follow(leave(loop))

\* the statements of a call in progress
Proceed ==
    \/ GiveXpIteration
    \/ TakeXpIteration
    \/ GiveXpReturn
    \/ TakeXpReturn

NextLoop ==
    \/ BeginGiveXp
    \/ BeginTakeXp
    \/ GiveXpIteration
    \/ TakeXpIteration
    \/ GiveXpReturn
    \/ TakeXpReturn

\* a call that was entered runs on: nothing suspends or cancels it
SpecLoop == InitLoop /\ [][NextLoop]_vars /\ WF_vars(Proceed)

(***************************************************************************)
(* Construction of an entity and assignment to its level                   *)
(***************************************************************************)
RecordEntity(op, amount, class_id, res) ==
    /\ hero' = res.hero
    /\ emitted' = res.emitted
    /\ invoked' = <<>>
    /\ call' = [event |-> "",
                raised |-> res.raised,
                skill |-> class_id,
                amount |-> amount,
                op |-> op,
                result |-> ~res.raised,
                pre |-> hero]
    /\ prev' = Previous(call)
    /\ UNCHANGED <<variant, foreign, world>>

\* heroes[hero_id](player, level, xp), as _new_player restores a hero, for a
\* hero class that inherits Hero.__init__: the TypeError leaves no hero, and
\* the hero at hand is as it was
Construct == \E m \in HeroMaxLevels : \E level \in AssignedLevels :
    LET res == Hero_init(m, 1, level, 0)
    IN  RecordEntity("construct", level, "",
                     [hero |-> IF res.raised THEN hero ELSE res.hero,
                      emitted |-> <<>>,
                      raised |-> res.raised])

\* an entity class called with a level, Entity(level): Entity.__init__
\* stores it; the entity is kept in `foreign`
ConstructEntity == \E class_id \in EntityClasses : \E level \in AssignedLevels :
    LET entity == Entity_call(<<level>>)
    IN  /\ foreign' = IF entity.raised THEN foreign
                       ELSE [class_id |-> class_id, level |-> entity.level]
        /\ call' = [event |-> "",
                    raised |-> entity.raised,
                    skill |-> class_id,
                    amount |-> level,
                    op |-> "entity_init",
                    result |-> ~entity.raised,
                    pre |-> hero]
        /\ prev' = Previous(call)
        /\ emitted' = <<>>
        /\ invoked' = <<>>
        /\ UNCHANGED <<hero, variant, world>>

\* hero.level = value
AssignLevel == \E value \in AssignedLevels :
    RecordEntity("level_setter", value, "", hero_level_setter(hero, value))

\* hero.skills[class_id].level = value
AssignSkillLevel == \E class_id \in SkillIds : \E value \in AssignedLevels :
    RecordEntity("skill_level_setter", value, class_id,
                 skill_level_setter(hero, class_id, value))

NextEntity ==
    \/ Construct
    \/ ConstructEntity
    \/ AssignLevel
    \/ AssignSkillLevel

SpecEntity == Init /\ [][NextEntity]_vars

(***************************************************************************)
(* A hero handed a skill instance it does not hold                         *)
(***************************************************************************)
InitOwnership ==
    /\ \E m \in HeroMaxLevels :
          hero = [max_level |-> m,
                  level |-> 0,
                  skills |-> [s \in SkillIds |-> 0],
                  xp |-> 0]
    /\ call = NoCall
    /\ prev = NoCall
    /\ emitted = <<>>
    /\ invoked = <<>>
    /\ variant = NoVariant
    /\ foreign \in ForeignSkills
    /\ Idle

RecordInstance(op, res) ==
    /\ hero' = res.hero
    /\ foreign' = res.skill
    /\ emitted' = res.emitted
    /\ invoked' = <<>>
    /\ call' = [event |-> "",
                raised |-> res.raised,
                skill |-> foreign.class_id,
                amount |-> 0,
                op |-> op,
                result |-> ~res.raised,
                pre |-> hero]
    /\ prev' = Previous(call)
    /\ UNCHANGED <<variant, world>>

QueryInstance(op, answer) ==
    /\ Query(op, foreign.class_id, answer)

UpgradeForeignSkill ==
    RecordInstance("upgrade_foreign_skill",
                   upgrade_skill_instance(hero, foreign))

DowngradeForeignSkill ==
    RecordInstance("downgrade_foreign_skill",
                   downgrade_skill_instance(hero, foreign))

CanUpgradeForeignSkill ==
    QueryInstance("can_upgrade_foreign_skill",
                  can_upgrade_skill_instance(hero, foreign))

CanDowngradeForeignSkill ==
    QueryInstance("can_downgrade_foreign_skill",
                  can_downgrade_skill_instance(hero, foreign))

NextOwnership ==
    \/ GiveXp
    \/ UpgradeSkill
    \/ DowngradeSkill
    \/ UpgradeForeignSkill
    \/ DowngradeForeignSkill
    \/ CanUpgradeForeignSkill
    \/ CanDowngradeForeignSkill

SpecOwnership == InitOwnership /\ [][NextOwnership]_vars

(***************************************************************************)
(* Dispatch of game events to the active heroes                            *)
(***************************************************************************)
\* one hero at level 0, the calls of Spec idle and the database empty
HeroIdle ==
    /\ hero = [max_level |-> Inf,
               level |-> 0,
               skills |-> [s \in SkillIds |-> 0],
               xp |-> 0]
    /\ call = NoCall
    /\ prev = NoCall
    /\ emitted = <<>>
    /\ invoked = <<>>
    /\ variant = NoVariant
    /\ foreign = NoForeign
    /\ loop = NoLoop
    /\ database = NoDatabase
    /\ menu = NoMenu

\* a player of the registry: with an active hero of its own, as _new_player
\* leaves it, or with none, as Player.__init__ leaves it
RegisteredPlayer(index, team, with_hero) ==
    [hero |-> IF with_hero THEN HeroRef(index, "Hero_A") ELSE NoneHero,
     team |-> team,
     heroes |-> IF with_hero
                THEN <<[class_id |-> "Hero_A", level |-> 0, xp |-> 0]>>
                ELSE <<>>]

InitDispatch ==
    /\ HeroIdle
    /\ \E team \in [1..NumPlayers -> Teams] :
       \E with_hero \in [1..NumPlayers -> BOOLEAN] :
          players = [i \in 1..NumPlayers |->
                        RegisteredPlayer(i, team[i], with_hero[i])]
    /\ event = NoEvent
    /\ dispatched = <<>>
    /\ roster = NoRoster

Handle(name, userid, attacker, res) ==
    /\ event' = [raised |-> res.raised,
                 name |-> name,
                 userid |-> userid,
                 attacker |-> attacker,
                 arg |-> <<>>]
    /\ dispatched' = res.dispatched
    /\ UNCHANGED <<hero, call, prev, emitted, invoked, variant, foreign,
                   players, roster, loop, database, menu>>

ExecuteIndividualSkills ==
    \E name \in IndividualEvents : \E userid \in 1..NumPlayers :
        Handle(name, userid, 0,
               execute_individual_skills(players, name, userid))

ExecuteInteractionSkills ==
    \E name \in RawInteractionEvents : \E userid \in 1..NumPlayers :
    \E attacker \in 0..NumPlayers :
        Handle(name, userid, attacker,
               execute_interaction_skills(players, name, userid, attacker))

NextDispatch ==
    \/ ExecuteIndividualSkills
    \/ ExecuteInteractionSkills

SpecDispatch == InitDispatch /\ [][NextDispatch]_vars

(***************************************************************************)
(* Players: creation from persisted data and the active hero               *)
(***************************************************************************)
InitPlayer ==
    /\ HeroIdle
    /\ players = NoPlayers
    /\ event = NoEvent
    /\ dispatched = <<>>
    /\ roster = NoRoster

PlayerEvent(name, index, raised, arg) ==
    /\ event' = [raised |-> raised,
                 name |-> name,
                 userid |-> index,
                 attacker |-> 0,
                 arg |-> arg]
    /\ UNCHANGED <<hero, call, prev, emitted, invoked, variant, foreign,
                   dispatched, roster, loop, database, menu>>

\* players[index] of a player not in the registry: PlayerDictionary calls
\* _new_player and, when it returns, stores the player.  The registry of
\* this specification holds the first player; the others only lend their
\* heroes to AssignedHeroes.
NewPlayer ==
    /\ players = NoPlayers
    /\ \E data \in PersistedData :
          /\ data.active = "None" <=> data.rows = <<>>
          /\ data.active # "None" => data.active \in HeroIds(data.rows)
          /\ LET index == Len(players) + 1
                 res == new_player(index, data.rows, data.active)
             IN  /\ players' = IF res.raised THEN players
                               ELSE Append(players, res.player)
                 /\ PlayerEvent("new_player", index, res.raised, data)

\* player.hero = value
SetHero ==
    \E index \in 1..Len(players) : \E value \in AssignedHeroes :
        LET res == hero_setter(players[index], value)
        IN  /\ players' = [players EXCEPT ![index] = res.player]
            /\ PlayerEvent("hero_setter", index, res.raised, value)

\* the change hero menu is sent to a player: _on_change_hero_menu_build
\* fills it with the options for the player as he is now
ChangeHeroMenuBuild ==
    \E index \in 1..Len(players) :
        LET res == change_hero_menu_build(players[index])
        IN  /\ menu' = [menu EXCEPT !.change_hero[index] = res.options]
            /\ event' = [raised |-> res.raised,
                         name |-> "change_hero_menu",
                         userid |-> index,
                         attacker |-> 0,
                         arg |-> <<>>]
            /\ UNCHANGED <<hero, call, prev, emitted, invoked, variant,
                           foreign, players, dispatched, roster, loop,
                           database>>

\* the player answers the menu he was sent: one of its selectable options
\* goes to _on_change_hero_menu_select, whatever happened to the player
\* since the menu was built
ChangeHero ==
    \E index \in 1..Len(players) :
    \E k \in 1..Len(menu.change_hero[index]) :
        LET hero_id == menu.change_hero[index][k]
            res == change_hero_menu_select(index, players[index], hero_id)
        IN  /\ players' = [players EXCEPT ![index] = res.player]
            /\ PlayerEvent("change_hero", index, res.raised, hero_id)

NextPlayer ==
    \/ NewPlayer
    \/ SetHero
    \/ ChangeHeroMenuBuild
    \/ ChangeHero

SpecPlayer == InitPlayer /\ [][NextPlayer]_vars

(***************************************************************************)
(* Experience from kills                                                   *)
(***************************************************************************)
KillXp == 30
HeadshotXp == 45

\* the position of the hero of class class_id in a player's heroes
HeroIndex(heroes, class_id) ==
    CHOOSE i \in 1..Len(heroes) : heroes[i].class_id = class_id

\* hero.xp += amount on a hero of a player: the xp setter with xp + amount;
\* the hero classes of the catalogue keep the max_level of Entity
hero_xp_add(h, amount) ==
    LET self == [max_level |-> Inf,
                 level |-> h.level,
                 skills |-> <<>>,
                 xp |-> h.xp]
        res == xp_setter(self, h.xp + amount)
    IN  [h EXCEPT !.level = res.hero.level, !.xp = res.hero.xp]

\* _give_xp_from_kill rewarding the victim
give_xp_from_kill_victim(registry, userid, attacker, headshot) ==
    IF attacker = 0 \/ attacker = userid
    THEN [players |-> registry, raised |-> FALSE]
    ELSE LET ref == from_userid(registry, userid).hero
         IN  IF ref = NoneHero
             THEN [players |-> registry, raised |-> TRUE]
             ELSE LET i == HeroIndex(registry[ref.owner].heroes, ref.class_id)
                  IN  [players |->
                           [registry EXCEPT ![ref.owner].heroes[i] =
                               hero_xp_add(@, IF headshot THEN HeadshotXp
                                              ELSE KillXp)],
                       raised |-> FALSE]

\* _give_xp_from_kill: the registry after it; it raises AttributeError when
\* the attacker's hero is None
give_xp_from_kill(registry, userid, attacker, headshot) ==
    IF attacker = 0 \/ attacker = userid
    THEN [players |-> registry, raised |-> FALSE]
    ELSE LET ref == from_userid(registry, attacker).hero
         IN  IF ref = NoneHero
             THEN [players |-> registry, raised |-> TRUE]
             ELSE LET i == HeroIndex(registry[ref.owner].heroes, ref.class_id)
                  IN  [players |->
                           [registry EXCEPT ![ref.owner].heroes[i] =
                               hero_xp_add(@, IF headshot THEN HeadshotXp
                                              ELSE KillXp)],
                       raised |-> FALSE]

\* the players as _new_player creates them for players never saved: the
\* heroes open to total level 0, the first of them active; on the two
\* playing teams
InitKill ==
    /\ HeroIdle
    /\ players = [i \in 1..NumPlayers |->
                     RegisteredPlayer(i, 2 + (i % 2), TRUE)]
    /\ event = NoEvent
    /\ dispatched = <<>>
    /\ roster = NoRoster

\* the event player_death handled by _give_xp_from_kill
GiveXpFromKill ==
    \E userid \in 1..NumPlayers : \E attacker \in 0..NumPlayers :
    \E headshot \in BOOLEAN :
        LET res == give_xp_from_kill(players, userid, attacker, headshot)
        IN  /\ \A i \in 1..NumPlayers :
               \A j \in 1..Len(res.players[i].heroes) :
                   TotalXp(res.players[i].heroes[j]) <= MaxKillXp
            /\ players' = res.players
            /\ PlayerEvent("player_death", userid, res.raised,
                           [attacker |-> attacker, headshot |-> headshot,
                            before |-> players])

NextKill ==
    \/ GiveXpFromKill
    \/ ChangeHeroMenuBuild
    \/ ChangeHero

SpecKill == InitKill /\ [][NextKill]_vars

(***************************************************************************)
(* The database: tables players, heroes and skills                         *)
(***************************************************************************)
\* a row of the table skills: steamid, hero_id, class_id, level
SkillRow(steamid, hero_id, class_id, level) ==
    [class_id |-> class_id,
     level |-> level,
     hero_id |-> hero_id,
     steamid |-> steamid]

\* a row of the table heroes: steamid, class_id, level, xp
HeroRow(steamid, class_id, level, xp) ==
    [class_id |-> class_id, level |-> level, xp |-> xp, steamid |-> steamid]

\* a row of the table players: steamid, active_hero_id
PlayerRow(steamid, active_hero_id) ==
    [active_hero_id |-> active_hero_id, steamid |-> steamid]

\* INSERT OR REPLACE INTO players: PRIMARY KEY steamid
save_player(db, row) ==
    [db EXCEPT !.players =
        {r \in @ : r.steamid # row.steamid} \cup {row}]

\* INSERT OR REPLACE INTO heroes: PRIMARY KEY (steamid, class_id)
save_hero(db, row) ==
    [db EXCEPT !.heroes =
        {r \in @ : ~(r.steamid = row.steamid /\ r.class_id = row.class_id)}
            \cup {row}]

\* INSERT OR REPLACE INTO skills: PRIMARY KEY (steamid, class_id); the row
\* it replaces is the one of the same player and skill class, whatever its
\* hero_id
save_skill(db, row) ==
    [db EXCEPT !.skills =
        {r \in @ : ~(r.steamid = row.steamid /\ r.class_id = row.class_id)}
            \cup {row}]

\* save_skills: executemany over the rows, in order
RECURSIVE save_skills(_, _)
save_skills(db, rows) ==
    IF rows = <<>> THEN db
    ELSE save_skills(save_skill(db, Head(rows)), Tail(rows))

\* save_heroes: executemany of the hero query over the rows, in order
RECURSIVE save_heroes(_, _)
save_heroes(db, rows) ==
    IF rows = <<>> THEN db
    ELSE save_heroes(save_hero(db, Head(rows)), Tail(rows))

\* save_players: executemany of the player query over the rows, in order
RECURSIVE save_players(_, _)
save_players(db, rows) ==
    IF rows = <<>> THEN db
    ELSE save_players(save_player(db, Head(rows)), Tail(rows))

\* get_skills_data: the (class_id, level) of the rows of a player's hero
get_skills_data(db, steamid, hero_id) ==
    {<<r.class_id, r.level>> :
        r \in {q \in db.skills : q.steamid = steamid /\ q.hero_id = hero_id}}

\* get_heroes_data: the (class_id, level, xp) of the rows of a player
get_heroes_data(db, steamid) ==
    {<<r.class_id, r.level, r.xp>> :
        r \in {q \in db.heroes : q.steamid = steamid}}

\* get_active_hero_id: the active_hero_id of the player's row, or None
get_active_hero_id(db, steamid) ==
    IF \E r \in db.players : r.steamid = steamid
    THEN (CHOOSE r \in db.players : r.steamid = steamid).active_hero_id
    ELSE "None"

\* the hero classes whose skills are saved: two classes with the same
\* roster of skill classes
SavedHeroIds == {"Hero_A", "Hero_B"}

\* the levels heroes are saved with
SavedHeroLevels == MaxSavedLevel..MaxSavedLevel

\* the skill rows _serialize_player_data yields for a hero, in the order
\* of hero.skills
RECURSIVE skill_rows(_, _, _, _)
skill_rows(steamid, hero_id, skills, i) ==
    IF i > Len(skill_classes) THEN <<>>
    ELSE <<SkillRow(steamid, hero_id, skill_classes[i],
                    skills[skill_classes[i]])>>
            \o skill_rows(steamid, hero_id, skills, i + 1)

InitDatabase ==
    /\ HeroIdle
    /\ players = NoPlayers
    /\ event = NoEvent
    /\ dispatched = <<>>
    /\ roster = NoRoster

DatabaseEvent(name, steamid, arg, db) ==
    /\ database' = db
    /\ event' = [raised |-> FALSE,
                 name |-> name,
                 userid |-> steamid,
                 attacker |-> 0,
                 arg |-> arg]
    /\ UNCHANGED <<hero, call, prev, emitted, invoked, variant, foreign,
                   players, dispatched, roster, loop, menu>>

\* database.save_skills with the skills of one hero of one player
SaveSkills ==
    \E steamid \in 1..NumPlayers : \E hero_id \in SavedHeroIds :
    \E skills \in [SkillIds -> 0..SkillFiniteMax] :
        LET rows == skill_rows(steamid, hero_id, skills, 1)
        IN  DatabaseEvent("save_skills", steamid,
                          [rows |-> rows,
                           hero_id |-> hero_id,
                           before |-> database],
                          save_skills(database, rows))

\* database.save_skill with one skill of one hero of one player
SaveSkill ==
    \E steamid \in 1..NumPlayers : \E hero_id \in SavedHeroIds :
    \E class_id \in SkillIds : \E level \in 0..SkillFiniteMax :
        LET row == SkillRow(steamid, hero_id, class_id, level)
        IN  DatabaseEvent("save_skill", steamid,
                          [rows |-> <<row>>,
                           hero_id |-> hero_id,
                           before |-> database],
                          save_skill(database, row))

\* database.save_hero with one hero of one player
SaveHero ==
    \E steamid \in 1..MaxSavedPlayers : \E hero_id \in SavedHeroIds :
    \E level \in SavedHeroLevels :
        DatabaseEvent("save_hero", steamid,
                      [rows |-> <<>>,
                       hero_id |-> hero_id,
                       before |-> database],
                      save_hero(database,
                                HeroRow(steamid, hero_id, level, 0)))

\* database.save_heroes with the heroes of one player
SaveHeroes ==
    \E steamid \in 1..MaxSavedPlayers :
    \E levels \in [SavedHeroIds -> SavedHeroLevels] :
        LET rows == <<HeroRow(steamid, "Hero_A", levels["Hero_A"], 0),
                      HeroRow(steamid, "Hero_B", levels["Hero_B"], 0)>>
        IN  DatabaseEvent("save_heroes", steamid,
                          [rows |-> rows,
                           hero_id |-> "",
                           before |-> database],
                          save_heroes(database, rows))

\* database.save_player with the active hero of one player
SavePlayer ==
    \E steamid \in 1..MaxSavedPlayers : \E hero_id \in SavedHeroIds :
        DatabaseEvent("save_player", steamid,
                      [rows |-> <<>>,
                       hero_id |-> hero_id,
                       before |-> database],
                      save_player(database, PlayerRow(steamid, hero_id)))

\* database.save_players with up to NumPlayers rows, in which a player may
\* have several
SavePlayers ==
    \E n \in 1..NumPlayers : \E active \in [1..n -> SavedHeroIds] :
    \E steamids \in [1..n -> 1..MaxSavedPlayers] :
        LET rows == [k \in 1..n |-> PlayerRow(steamids[k], active[k])]
        IN  DatabaseEvent("save_players", n,
                          [rows |-> rows,
                           hero_id |-> "",
                           before |-> database],
                          save_players(database, rows))

NextDatabase ==
    \/ SaveSkill
    \/ SaveSkills
    \/ SaveHero
    \/ SaveHeroes
    \/ SavePlayer
    \/ SavePlayers

SpecDatabase == InitDatabase /\ [][NextDatabase]_vars

(***************************************************************************)
(* Loading a player's heroes and their skills                              *)
(***************************************************************************)
\* the skills of a hero as _HeroMeta.__call__ leaves them
NewSkills == [s \in SkillIds |-> 0]

\* the skill loop of _new_player over the rows of get_skills_data, inside
\* contextlib.suppress(KeyError): hero.skills[skill_id] of an unknown skill
\* raises KeyError, which leaves the with block and so the loop; the
\* ValueError of the level setter is not suppressed
RECURSIVE load_skills(_, _)
load_skills(skills, rows) ==
    IF rows = <<>> THEN [raised |-> FALSE, skills |-> skills]
    ELSE IF Head(rows).class_id \notin DOMAIN skills
    THEN [raised |-> FALSE, skills |-> skills]
    ELSE IF level_setter_raises(Head(rows).level,
                                skill_max_level(Head(rows).class_id))
    THEN [raised |-> TRUE, skills |-> skills]
    ELSE load_skills(
             [skills EXCEPT ![Head(rows).class_id] = Head(rows).level],
             Tail(rows))

\* a hero of a player with its skills
FullHero(h, skills) ==
    [class_id |-> h.class_id,
     level |-> h.level,
     skills |-> skills,
     xp |-> h.xp]

\* _new_player with the skills of the heroes: the heroes, the unlocked ones
\* and the active hero as new_player gives them; a hero loaded from a row
\* gets the levels of its skill rows, skills_of[class_id], a hero unlocked
\* keeps its skills at level 0
new_player_skills(index, rows, skills_of, active_hero_id) ==
    LET res == new_player(index, rows, active_hero_id)
        Loaded(h) == IF h.class_id \in HeroIds(load_heroes(rows))
                     THEN load_skills(NewSkills, skills_of[h.class_id])
                     ELSE [raised |-> FALSE, skills |-> NewSkills]
        heroes == res.player.heroes
    IN  [raised |-> res.raised
                      \/ \E i \in 1..Len(heroes) : Loaded(heroes[i]).raised,
         player |-> [res.player EXCEPT !.heroes =
                        [i \in 1..Len(heroes) |->
                            FullHero(heroes[i], Loaded(heroes[i]).skills)]]]

\* skill class_ids in persisted rows: the roster's and Armor, a skill class
\* the hero no longer has
PersistedSkillIds == SkillIds \cup {"Armor"}

\* the rows get_skills_data returns for one hero: up to MaxSkillRows rows,
\* no class_id twice, in any order
PersistedSkillRows ==
    UNION {{r \in [1..n -> [class_id : PersistedSkillIds,
                            level : 0..SkillFiniteMax]] :
               \A i, j \in 1..n : i # j => r[i].class_id # r[j].class_id} :
           n \in 0..MaxSkillRows}

\* the rows get_heroes_data returns: Hero_A, and before or after it a row
\* of Hero_X, a hero class the server no longer has
PersistedHeroRows ==
    LET A == [class_id |-> "Hero_A", level |-> 1, xp |-> 30]
        X == [class_id |-> "Hero_X", level |-> 1, xp |-> 0]
    IN  {<<A>>, <<X, A>>, <<A, X>>}

InitLoad ==
    /\ HeroIdle
    /\ players = NoPlayers
    /\ event = NoEvent
    /\ dispatched = <<>>
    /\ roster = NoRoster

\* players[index] of a player not in the registry, whose saved active hero
\* is Hero_A
LoadPlayer ==
    \E rows \in PersistedHeroRows : \E skill_rows_A \in PersistedSkillRows :
        LET skills_of == [c \in CatalogueIds |->
                             IF c = "Hero_A" THEN skill_rows_A ELSE <<>>]
            res == new_player_skills(1, rows, skills_of, "Hero_A")
        IN  /\ players' = IF res.raised THEN NoPlayers ELSE <<res.player>>
            /\ PlayerEvent("new_player", 1, res.raised,
                           [rows |-> rows, skills_of |-> skills_of])

NextLoad == LoadPlayer

SpecLoad == InitLoad /\ [][NextLoad]_vars

(***************************************************************************)
(* A session: connect, progress, change of hero, disconnect                *)
(***************************************************************************)
\* _serialize_player_data: the rows of the player's active hero alone
serialize_player_data(steamid, active) ==
    [hero |-> HeroRow(steamid, active.class_id, active.level, active.xp),
     skills |-> skill_rows(steamid, active.class_id, active.skills, 1),
     player |-> PlayerRow(steamid, active.class_id)]

\* the hero object player.hero refers to: a hero of the player's own heroes
\* or, after an assignment to player.hero, a hero of another player
active_hero(registry, player) ==
    LET heroes == registry[player.hero.owner].heroes
    IN  heroes[HeroIndex(heroes, player.hero.class_id)]

\* _save_player_data of the player at index: save_player, save_hero,
\* save_skills, commit; hero.class_id of the hero None raises AttributeError
\* in _serialize_player_data, before anything is saved
save_player_data(registry, db, index) ==
    IF registry[index].hero = NoneHero
    THEN [database |-> db, raised |-> TRUE]
    ELSE LET data == serialize_player_data(
                         index, active_hero(registry, registry[index]))
         IN  [database |->
                  save_skills(save_hero(save_player(db, data.player),
                                        data.hero),
                              data.skills),
              raised |-> FALSE]

\* _save_all_data: `players` is assigned further down in the function and
\* so is a local name; players.values() on its first line raises
\* UnboundLocalError before anything is serialized or saved
save_all_data(registry, db) ==
    [players |-> registry, database |-> db, raised |-> TRUE]

\* _save_disconnecters_data: nothing for an index not in the registry, else
\* the player's data are saved and `del players[index]` takes that player,
\* and no other, out of the registry
save_disconnecters_data(registry, db, index) ==
    IF index \notin DOMAIN registry
    THEN [players |-> registry, database |-> db, raised |-> FALSE]
    ELSE LET saved == save_player_data(registry, db, index)
         IN  IF saved.raised
             THEN [players |-> registry, database |-> db, raised |-> TRUE]
             ELSE [players |-> [i \in DOMAIN registry \ {index} |->
                                   registry[i]],
                   database |-> saved.database,
                   raised |-> FALSE]

\* the rows of a table for the class_ids of `ids`, in that order, as
\* SQLite returns them by the index of the primary key
RECURSIVE rows_in_order(_, _, _)
rows_in_order(table, ids, i) ==
    IF i > Len(ids) THEN <<>>
    ELSE (IF \E r \in table : r.class_id = ids[i]
          THEN <<CHOOSE r \in table : r.class_id = ids[i]>>
          ELSE <<>>) \o rows_in_order(table, ids, i + 1)

\* the class_ids of the rows of the table skills, the roster's and those of
\* skill classes the heroes do not have, in the order of the primary key
SkillKeys == <<"Armor", "Bonus_Health", "MySkill", "Zeal">>

\* _new_player reading the database: get_skills_data hands every row of the
\* hero to the skill loop, a row of a skill class the hero lacks included
new_player_database(db, index) ==
    LET hero_rows ==
            rows_in_order({r \in db.heroes : r.steamid = index},
                          PersistedIds, 1)
        skills_of ==
            [c \in CatalogueIds |->
                rows_in_order({r \in db.skills : r.steamid = index
                                                  /\ r.hero_id = c},
                              SkillKeys, 1)]
    IN  new_player_skills(
            index,
            [i \in 1..Len(hero_rows) |->
                [class_id |-> hero_rows[i].class_id,
                 level |-> hero_rows[i].level, xp |-> hero_rows[i].xp]],
            [c \in CatalogueIds |->
                [i \in 1..Len(skills_of[c]) |->
                    [class_id |-> skills_of[c][i].class_id,
                     level |-> skills_of[c][i].level]]],
            get_active_hero_id(db, index))

\* _on_change_hero_menu_select, the new hero with the skills of its class
change_hero_skills(index, player, hero_id) ==
    LET res == change_hero_menu_select(index, player, hero_id)
        heroes == res.player.heroes
    IN  [res EXCEPT !.player.heroes =
            [i \in 1..Len(heroes) |->
                IF "skills" \in DOMAIN heroes[i] THEN heroes[i]
                ELSE FullHero(heroes[i], NewSkills)]]

\* an option of the spend skills menu: the skill object it holds is the
\* skill `skill` of the hero hero_id of the player `owner`, or, with owner 0,
\* a skill of a hero that left the registry with its player, on `level`
SkillOption(owner, hero_id, skill, level) ==
    [level |-> level, skill |-> skill, owner |-> owner, hero_id |-> hero_id]

\* the skill object an option holds
option_skill(registry, option) ==
    IF option.owner = 0
    THEN [class_id |-> option.skill, level |-> option.level]
    ELSE LET heroes == registry[option.owner].heroes
         IN  [class_id |-> option.skill,
              level |-> heroes[HeroIndex(heroes, option.hero_id)]
                            .skills[option.skill]]

\* _on_spend_skills_menu_build for the player at index: menu.clear(), then
\* hero.name, which raises AttributeError for the hero None, then an option
\* for each skill object of the active hero; the options that are
\* selectable, in order
spend_skills_menu_send(registry, index) ==
    IF registry[index].hero = NoneHero
    THEN [raised |-> TRUE, options |-> <<>>]
    ELSE LET ref == registry[index].hero
             built == spend_skills_menu_build(
                          active_hero(registry, registry[index]))
             chosen == SelectSeq(built, LAMBDA o : o.selectable)
         IN  [raised |-> FALSE,
              options |-> [k \in 1..Len(chosen) |->
                              SkillOption(ref.owner, ref.class_id,
                                          chosen[k].skill, 0)]]

\* _on_spend_skills_menu_select of the player at index for an option: the
\* hero active now tests the skill object of the option and upgrades that
\* object, which is a skill of the hero the menu was built for; the registry
\* and the option after it
spend_skill(registry, index, option) ==
    IF registry[index].hero = NoneHero
    THEN [players |-> registry, raised |-> TRUE, option |-> option]
    ELSE LET self == active_hero(registry, registry[index])
             skill == option_skill(registry, option)
         IN  IF ~can_upgrade_skill_instance(self, skill)
             THEN [players |-> registry, raised |-> FALSE, option |-> option]
             ELSE LET res == upgrade_skill_instance(self, skill)
                  IN  IF res.raised
                      THEN [players |-> registry, raised |-> TRUE,
                            option |-> option]
                      ELSE IF option.owner = 0
                      THEN [players |-> registry, raised |-> FALSE,
                            option |-> [option EXCEPT
                                            !.level = res.skill.level]]
                      ELSE LET heroes == registry[option.owner].heroes
                               i == HeroIndex(heroes, option.hero_id)
                           IN  [players |->
                                    [registry EXCEPT
                                        ![option.owner].heroes[i]
                                            .skills[option.skill] =
                                                res.skill.level],
                                raised |-> FALSE,
                                option |-> option]

\* the options of the spend skills menu once the player at index has left
\* the registry: the skill objects of his heroes stay in the options
detach_options(registry, options, index) ==
    [k \in 1..Len(options) |->
        IF options[k].owner = index
        THEN SkillOption(0, options[k].hero_id, options[k].skill,
                         option_skill(registry, options[k]).level)
        ELSE options[k]]

InitSession ==
    /\ HeroIdle
    /\ players = NoPlayers
    /\ event = NoEvent
    /\ dispatched = <<>>
    /\ roster = NoRoster

SessionStep(name, arg) ==
    /\ event' = [raised |-> FALSE,
                 name |-> name,
                 userid |-> 1,
                 attacker |-> 0,
                 arg |-> arg]
    /\ UNCHANGED <<hero, call, prev, emitted, invoked, variant, foreign,
                   dispatched, roster, loop>>

SessionEvent(name, arg) ==
    /\ SessionStep(name, arg)
    /\ UNCHANGED menu

\* players[1] of a player not in the registry: _new_player from the
\* database; the event keeps the player as the disconnect before it, if
\* any, saved it
Connect ==
    /\ players = NoPlayers
    /\ LET res == new_player_database(database, 1)
       IN  /\ ~res.raised
           /\ players' = <<res.player>>
           /\ database' = database
           /\ SessionEvent("new_player",
                           IF event.name = "player_disconnect"
                           THEN event.arg ELSE <<>>)

\* a kill by the player: _give_xp_from_kill, which looks up the attacker
SessionKill ==
    /\ players # NoPlayers
    /\ \E headshot \in BOOLEAN :
          LET res == give_xp_from_kill(players, 2, 1, headshot)
          IN  /\ \A j \in 1..Len(res.players[1].heroes) :
                    TotalXp(res.players[1].heroes[j]) <= MaxKillXp
              /\ players' = res.players
              /\ database' = database
              /\ SessionEvent("player_death", <<>>)

\* the spend skills menu is sent to the player and built for him
SessionSpendSkillsMenuBuild ==
    /\ players # NoPlayers
    /\ LET res == spend_skills_menu_send(players, 1)
       IN  /\ ~res.raised
           /\ menu' = [menu EXCEPT !.spend_skills[1] = res.options]
           /\ UNCHANGED <<players, database>>
           /\ SessionStep("spend_skills_menu", <<>>)

\* the player selects an option of the spend skills menu as it was last
\* built for him, whatever hero is active now; the callback returns the
\* menu, which is sent to the player again and so built anew for the hero
\* active now
SessionSpendSkill ==
    /\ players # NoPlayers
    /\ \E k \in 1..Len(menu.spend_skills[1]) :
          LET res == spend_skill(players, 1, menu.spend_skills[1][k])
              sent == spend_skills_menu_send(res.players, 1)
          IN  /\ ~res.raised
              /\ ~sent.raised
              /\ option_skill(res.players, res.option).level
                    <= MaxOptionLevel
              /\ players' = res.players
              /\ menu' = [menu EXCEPT !.spend_skills[1] = sent.options]
              /\ database' = database
              /\ SessionStep("spend_skill", <<>>)

\* the change hero menu is sent to the player and built for him
SessionChangeHeroMenuBuild ==
    /\ players # NoPlayers
    /\ LET res == change_hero_menu_build(players[1])
       IN  /\ ~res.raised
           /\ menu' = [menu EXCEPT !.change_hero[1] = res.options]
           /\ event' = [raised |-> FALSE,
                        name |-> "change_hero_menu",
                        userid |-> 1,
                        attacker |-> 0,
                        arg |-> <<>>]
           /\ UNCHANGED <<hero, call, prev, emitted, invoked, variant,
                          foreign, players, dispatched, roster, loop,
                          database>>

\* the player selects an option of the menu as it was last built for him;
\* nothing in the plugin takes the options back when he disconnects
SessionChangeHero ==
    /\ players # NoPlayers
    /\ \E k \in 1..Len(menu.change_hero[1]) :
          LET res == change_hero_skills(1, players[1],
                                        menu.change_hero[1][k])
          IN  /\ ~res.raised
              /\ players' = [players EXCEPT ![1] = res.player]
              /\ database' = database
              /\ SessionEvent("change_hero", <<>>)

\* the TickRepeat of 240 seconds, or unload(), calls _save_all_data
SaveAllData ==
    LET res == save_all_data(players, database)
    IN  /\ players' = res.players
        /\ database' = res.database
        /\ event' = [raised |-> res.raised,
                     name |-> "save_all_data",
                     userid |-> 0,
                     attacker |-> 0,
                     arg |-> <<>>]
        /\ UNCHANGED <<hero, call, prev, emitted, invoked, variant,
                       foreign, dispatched, roster, loop, menu>>

\* player_disconnect handled by _save_disconnecters_data
Disconnect ==
    /\ players # NoPlayers
    /\ LET res == save_disconnecters_data(players, database, 1)
       IN  /\ ~res.raised
           /\ players' = res.players
           /\ database' = res.database
           /\ menu' = [menu EXCEPT !.spend_skills =
                          [i \in DOMAIN @ |->
                              detach_options(players, @[i], 1)]]
           /\ SessionStep("player_disconnect", <<players[1]>>)

NextSession ==
    \/ Connect
    \/ SessionKill
    \/ SessionSpendSkillsMenuBuild
    \/ SessionSpendSkill
    \/ SessionChangeHeroMenuBuild
    \/ SessionChangeHero
    \/ SaveAllData
    \/ Disconnect

SpecSession == InitSession /\ [][NextSession]_vars

(***************************************************************************)
(* Declaration of a hero class's skills and construction of a hero         *)
(***************************************************************************)
\* the module of the skill classes of the hero type
SkillModule == "skills"

\* the skill classes handed to the skill decorator of the hero class: the
\* two of the hero type, and another class of the name Bonus_Health, which
\* a second module defines
DeclaredClasses ==
    {SkillClass(SkillModule, "Bonus_Health"),
     SkillClass(SkillModule, "MySkill"),
     SkillClass("other", "Bonus_Health")}

\* class MyHero(Hero): _HeroMeta.__init__ sets skill_classes = []; no hero
\* of the class exists yet
InitRoster ==
    /\ hero = [max_level |-> Inf, level |-> 0, skills |-> <<>>, xp |-> 0]
    /\ call = NoCall
    /\ prev = NoCall
    /\ emitted = <<>>
    /\ invoked = <<>>
    /\ variant = NoVariant
    /\ foreign = NoForeign
    /\ players = NoPlayers
    /\ event = NoEvent
    /\ dispatched = <<>>
    /\ roster = NoRoster
    /\ loop = NoLoop
    /\ database = NoDatabase
    /\ menu = NoMenu

\* @MyHero.skill on a skill class, before or after a hero of the class was
\* constructed: the hero that exists keeps the skills it was given
DeclareSkill ==
    /\ Len(roster.done) < MaxDeclarations
    /\ \E skill_class \in DeclaredClasses :
          LET res == HeroMeta_skill(roster.skill_classes, skill_class)
          IN  roster' = [roster EXCEPT
                             !.done = Append(@, skill_class),
                             !.skill_classes = res.skill_classes,
                             !.raised = res.raised]
    /\ UNCHANGED <<hero, call, prev, emitted, invoked, variant, foreign,
                   players, event, dispatched, loop, database, menu>>

\* a hero as its class's own __init__(owner) leaves it, for a hero class
\* that does not inherit Hero.__init__: level 0, xp 0, no skill yet
OwnHeroInit ==
    [hero |-> [max_level |-> Inf, level |-> 0, skills |-> <<>>, xp |-> 0],
     emitted |-> <<>>,
     raised |-> FALSE]

\* MyHero(owner): _HeroMeta.__call__ runs the __init__ of the class and then
\* gives the instance a skill_class() of each declared class.  hero_own and
\* skill_own: the hero class, the skill classes, define an __init__ of their
\* own that accepts the call; otherwise they inherit Hero.__init__ and
\* Skill.__init__, and the TypeError leaves no hero.  The hero followed is
\* the first one of the class that is constructed
ConstructHero ==
    /\ ~roster.constructed
    /\ \E hero_own \in BOOLEAN : \E skill_own \in BOOLEAN :
          LET init == IF hero_own THEN OwnHeroInit
                      ELSE Hero_init(Inf, 1, 0, 0)
              res == IF init.raised THEN [raised |-> TRUE, skills |-> <<>>]
                     ELSE HeroMeta_call(<<>>, roster.skill_classes, 1,
                                        skill_own)
          IN  IF res.raised
              THEN /\ call' = ConstructRaised
                   /\ UNCHANGED <<hero, roster>>
              ELSE /\ roster' = [roster EXCEPT !.constructed = TRUE,
                                               !.skills = res.skills]
                   /\ hero' = [init.hero EXCEPT
                                   !.skills =
                                       [s \in {Entity_class_id(c) :
                                                  c \in Elements(res.skills)}
                                           |-> 0]]
                   /\ call' = NoCall
    /\ UNCHANGED <<prev, emitted, invoked, variant, foreign,
                   players, event, dispatched, loop, database, menu>>

\* the operations of Spec on the constructed hero, for a hero that holds
\* the skills of the hero of Spec: an instance of the hero type's
\* Bonus_Health first, of its MySkill second
Constructed ==
    /\ roster.constructed
    /\ roster.skills =
           [i \in 1..Len(skill_classes) |->
               SkillClass(SkillModule, skill_classes[i])]

\* amounts of xp given to and taken from the constructed hero
RosterAmounts == {80}

RosterGiveXp == \E amount \in RosterAmounts :
    Constructed /\ Record("give_xp", amount, "", give_xp(hero, amount))

RosterTakeXp == \E amount \in RosterAmounts :
    Constructed /\ Record("take_xp", amount, "", take_xp(hero, amount))

NextRoster ==
    \/ DeclareSkill
    \/ ConstructHero
    \/ RosterGiveXp
    \/ RosterTakeXp
    \/ Constructed /\ UpgradeSkill
    \/ Constructed /\ DowngradeSkill
    \/ Constructed /\ ExecuteSkills

SpecRoster == InitRoster /\ [][NextRoster]_vars

(***************************************************************************)
(* Definition of a skill class                                             *)
(***************************************************************************)
\* a class body with its decorated callbacks, before the metaclass runs
InitRegistry ==
    /\ hero = [max_level |-> Inf,
               level |-> 0,
               skills |-> [s \in SkillIds |-> 0],
               xp |-> 0]
    /\ call = NoCall
    /\ prev = NoCall
    /\ emitted = <<>>
    /\ invoked = <<>>
    /\ foreign = NoForeign
    /\ Idle
    /\ \E attrs \in ClassBodies :
          variant = [raised |-> FALSE,
                     registry |-> <<>>,
                     attrs |-> attrs,
                     defined |-> FALSE]

\* class X(Skill): ... -- _SkillMeta.__init__ builds X._event_callbacks
DefineSkill ==
    /\ ~variant.defined
    /\ LET res == SkillMeta_init(variant.attrs)
       IN  variant' = [variant EXCEPT !.defined = TRUE,
                                      !.raised = res.raised,
                                      !.registry = res.registry]
    /\ UNCHANGED <<hero, call, prev, emitted, invoked, foreign, world>>

NextRegistry == DefineSkill

SpecRegistry == InitRegistry /\ [][NextRegistry]_vars

(***************************************************************************)
(* Reference values used by the properties                                  *)
(***************************************************************************)
\* 80 + 15*0 + ... + 80 + 15*(n-1), in closed form
QuotaSum(n) == 80 * n + 15 * ((n * (n - 1)) \div 2)

\* the level give_xp must end on, from level L with xp `total` to consume:
\* the first level from L up that is max_level or whose quota is not met
GiveRefLevel(L, total, max_level) ==
    LET Left(n) == total - (QuotaSum(n) - QuotaSum(L))
        Stop(n) == n = max_level \/ Left(n) < 80 + 15 * n
        Top == L + (IF total > 0 THEN total \div 80 ELSE 0) + 1
    IN  CHOOSE n \in L..Top : Stop(n) /\ \A m \in L..(n - 1) : ~Stop(m)

\* the level take_xp must end on, from level L with xp `rest` (after the
\* subtraction): the first level from L down that is 0 or has xp >= 0
TakeRefLevel(L, rest) ==
    LET Back(n) == rest + (QuotaSum(L) - QuotaSum(n))
        Stop(n) == n = 0 \/ Back(n) >= 0
    IN  CHOOSE n \in 0..L : Stop(n) /\ \A m \in (n + 1)..L : ~Stop(m)

Returned(op) == call.op = op /\ ~call.raised

(***************************************************************************)
(* Properties                                                              *)
(***************************************************************************)
\* C1: after any sequence of calls, accepted or rejected, the hero's level
\* is within 0..max_level and every skill's level within 0..its max_level.
C1_LevelsWithinBounds ==
    /\ 0 <= hero.level /\ hero.level <= hero.max_level
    /\ \A s \in SkillIds :
          0 <= hero.skills[s] /\ hero.skills[s] <= skill_max_level(s)

\* a single give_xp granted several levels and stopped on a finite max_level
\* with more xp left than the quota formula asks for that level
C1_Witness ==
    /\ Returned("give_xp")
    /\ hero.max_level = HeroFiniteMax
    /\ hero.level = hero.max_level
    /\ hero.level - call.pre.level >= 2
    /\ hero.xp >= 80 + 15 * hero.level

\* C2: skill_points = level - sum(skill.level) is never negative.
C2_SkillPointsNonNegative == skill_points(hero) >= 0

\* C3: give_xp(amount), amount >= 0, ends on the reference (level, xp):
\* xp + amount is consumed quota by quota, 80 + 15*level each, until
\* max_level is reached or the quota is not met; (0,0)+80 -> (1,0) and
\* (0,0)+175 -> (2,0).
C3_GiveXpReference ==
    (call.op = "give_xp" /\ call.amount >= 0) =>
        LET L == call.pre.level
            total == call.pre.xp + call.amount
            n == GiveRefLevel(L, total, hero.max_level)
        IN  /\ ~call.raised
            /\ hero.level = n
            /\ hero.xp = total - (QuotaSum(n) - QuotaSum(L))
            /\ (L = 0 /\ call.pre.xp = 0 /\ call.amount = 80)
                  => (hero.level = 1 /\ hero.xp = 0)
            /\ (L = 0 /\ call.pre.xp = 0 /\ call.amount = 175)
                  => (hero.level = 2 /\ hero.xp = 0)

\* give_xp(175) on a hero at (0, 0) has returned
C3_Witness ==
    /\ Returned("give_xp")
    /\ call.amount = 175
    /\ call.pre.level = 0 /\ call.pre.xp = 0
    /\ hero.level = 2

\* C4: take_xp(amount), amount >= 0, ends on the reference (level, xp):
\* after xp - amount, each level lost adds the quota of the level entered,
\* 80 + 15*new_level, until level is 0 or xp >= 0; also from max_level.
C4_TakeXpReference ==
    (call.op = "take_xp" /\ call.amount >= 0) =>
        LET L == call.pre.level
            rest == call.pre.xp - call.amount
            n == TakeRefLevel(L, rest)
        IN  /\ ~call.raised
            /\ hero.level = n
            /\ hero.xp = rest + (QuotaSum(L) - QuotaSum(n))

\* take_xp took two levels from a hero that was on its finite max_level
C4_Witness ==
    /\ Returned("take_xp")
    /\ call.pre.max_level = HeroFiniteMax
    /\ call.pre.level = call.pre.max_level
    /\ hero.level <= call.pre.level - 2

\* C5: give_xp emits OnHeroLevelUp exactly once, with the hero as it is
\* after all its level changes and levels = final - initial, iff the level
\* rose; take_xp emits OnHeroLevelDown exactly once with levels = initial -
\* final iff the level fell; a call that changes no level emits nothing.
C5_OneNotificationPerCall ==
    /\ Returned("give_xp") =>
          /\ hero.level >= call.pre.level
          /\ emitted = IF hero.level > call.pre.level
                       THEN <<[hero |-> hero,
                               kind |-> "OnHeroLevelUp",
                               levels |-> hero.level - call.pre.level,
                               skill |-> ""]>>
                       ELSE <<>>
    /\ Returned("take_xp") =>
          /\ hero.level <= call.pre.level
          /\ emitted = IF hero.level < call.pre.level
                       THEN <<[hero |-> hero,
                               kind |-> "OnHeroLevelDown",
                               levels |-> call.pre.level - hero.level,
                               skill |-> ""]>>
                       ELSE <<>>

\* a give_xp that gained several levels has emitted its one notification
C5_Witness ==
    /\ Returned("give_xp")
    /\ hero.level - call.pre.level >= 2
    /\ Len(emitted) = 1
    /\ emitted[1].levels = hero.level - call.pre.level

\* C6: give_xp and take_xp with amount < 0 fail, change neither level, xp
\* nor any skill level, and emit nothing.
C6_NegativeAmountRejected ==
    (call.op \in {"give_xp", "take_xp"} /\ call.amount < 0) =>
        /\ call.raised
        /\ hero = call.pre
        /\ emitted = <<>>

\* take_xp(-1) was rejected on a hero that has a level, xp and a skill level
C6_Witness ==
    /\ call.op = "take_xp" /\ call.amount < 0 /\ call.raised
    /\ hero.level > 0 /\ hero.xp > 0
    /\ \E s \in SkillIds : hero.skills[s] > 0

\* C7: on a hero that is on its finite max_level, give_xp(amount) adds
\* exactly amount to xp, leaves level on max_level and emits no
\* OnHeroLevelUp, however large xp has become.
C7_MaxLevelBanksXp ==
    (Returned("give_xp") /\ call.pre.max_level # Inf
                         /\ call.pre.level = call.pre.max_level) =>
        /\ hero.level = hero.max_level
        /\ hero.xp = call.pre.xp + call.amount
        /\ emitted = <<>>

\* give_xp on a max_level hero whose xp was already above 80 + 15*level
C7_Witness ==
    /\ Returned("give_xp")
    /\ call.amount > 0
    /\ call.pre.max_level # Inf
    /\ call.pre.level = call.pre.max_level
    /\ call.pre.xp >= 80 + 15 * call.pre.level
    /\ hero.xp > call.pre.xp

\* C8: give_xp(a) immediately followed by take_xp(a), when the give_xp
\* crossed no level boundary, restores the original (level, xp).
C8_GiveThenTakeRestores ==
    (/\ Returned("take_xp")
     /\ prev.op = "give_xp" /\ ~prev.raised
     /\ prev.amount = call.amount
     /\ call.pre.level = prev.pre.level) =>
        /\ hero.level = prev.pre.level
        /\ hero.xp = prev.pre.xp

\* give_xp(a), a > 0, then take_xp(a) on a hero with a level, the take_xp
\* ending on xp = 0
C8_Witness ==
    /\ Returned("take_xp")
    /\ prev.op = "give_xp" /\ ~prev.raised
    /\ prev.amount = call.amount /\ call.amount > 0
    /\ call.pre.level = prev.pre.level
    /\ prev.pre.level > 0
    /\ hero.xp = 0

\* C9: take_xp(amount) at level 0 with amount > xp leaves level 0 and
\* xp = xp - amount, negative and not clamped, and emits no
\* OnHeroLevelDown; the give_xp(b) that follows counts from that xp: the
\* experience it ends with, quotas of the gained levels included, is
\* xp - amount + b.
C9_NegativeXpAtLevelZero ==
    /\ (Returned("take_xp") /\ call.pre.level = 0
                            /\ call.amount > call.pre.xp) =>
          /\ hero.level = 0
          /\ hero.xp = call.pre.xp - call.amount
          /\ hero.xp < 0
          /\ emitted = <<>>
    /\ (/\ Returned("give_xp")
        /\ prev.op = "take_xp" /\ ~prev.raised
        /\ prev.pre.level = 0 /\ prev.amount > prev.pre.xp) =>
          /\ call.pre.xp = prev.pre.xp - prev.amount
          /\ hero.xp + QuotaSum(hero.level)
                = prev.pre.xp - prev.amount + call.amount
          /\ (call.pre.xp + call.amount < 80) =>
                (hero.level = 0 /\ hero.xp = call.pre.xp + call.amount)

\* take_xp drove a level-0 hero below zero and the give_xp after it ended
\* on level 0 with less xp than it was given
C9_Witness ==
    /\ Returned("give_xp")
    /\ prev.op = "take_xp" /\ ~prev.raised
    /\ prev.pre.level = 0 /\ prev.amount > prev.pre.xp
    /\ call.pre.xp < 0
    /\ call.amount > 0
    /\ hero.level = 0
    /\ hero.xp < call.amount

\* C10: for a skill the hero owns, can_upgrade_skill is true iff
\* skill_points > 0 and the skill's level is not its max_level;
\* can_downgrade_skill is true iff the skill's level is > 0.
C10_CanUpgradeDowngrade ==
    LET points == hero.level - hero.skills["Bonus_Health"]
                             - hero.skills["MySkill"]
    IN  /\ call.op = "can_upgrade_skill" =>
              (call.result <=>
                  (points > 0 /\ hero.skills[call.skill]
                                    # skill_max_level(call.skill)))
        /\ call.op = "can_downgrade_skill" =>
              (call.result <=> hero.skills[call.skill] > 0)

\* can_upgrade_skill answered no for a skill on its max_level although the
\* hero has skill points to spend
C10_Witness ==
    /\ call.op = "can_upgrade_skill"
    /\ ~call.result
    /\ skill_points(hero) > 0
    /\ hero.skills[call.skill] = skill_max_level(call.skill)

\* C11: with skill_points = 0, can_upgrade_skill is false for every skill,
\* upgrade_skill fails for every skill, no level changes and no
\* OnSkillUpgrade is emitted.
C11_NoUpgradeWithoutPoints ==
    LET points == call.pre.level - call.pre.skills["Bonus_Health"]
                                 - call.pre.skills["MySkill"]
    IN  /\ (call.op = "upgrade_skill" /\ points = 0) =>
              /\ call.raised
              /\ hero = call.pre
              /\ emitted = <<>>
        /\ (call.op = "can_upgrade_skill" /\ points = 0) => ~call.result

\* upgrade_skill of the skill at level 0 failed on a level-1 hero whose
\* other skill is at level 1
C11_Witness ==
    /\ call.op = "upgrade_skill" /\ call.raised
    /\ call.skill = "MySkill"
    /\ hero.level = 1
    /\ hero.skills["Bonus_Health"] = 1 /\ hero.skills["MySkill"] = 0

\* C12: on a skill at level 0 can_downgrade_skill is false and
\* downgrade_skill fails, leaves the skill at 0 and everything else as it
\* was, and emits no OnSkillDowngrade.
C12_NoDowngradeBelowZero ==
    /\ (call.op = "downgrade_skill" /\ call.pre.skills[call.skill] = 0) =>
          /\ call.raised
          /\ hero.skills[call.skill] = 0
          /\ hero = call.pre
          /\ emitted = <<>>
    /\ (call.op = "can_downgrade_skill" /\ call.pre.skills[call.skill] = 0)
          => ~call.result

\* downgrade_skill failed on a level-0 skill of a hero that has a level, xp
\* and another skill above 0
C12_Witness ==
    /\ call.op = "downgrade_skill" /\ call.raised
    /\ hero.skills[call.skill] = 0
    /\ hero.level > 0 /\ hero.xp > 0
    /\ \E s \in SkillIds : hero.skills[s] > 0

\* C14: a successful upgrade_skill changes only that skill's level, by +1
\* (skill_points falls by 1), a successful downgrade_skill only that
\* skill's level, by -1 (skill_points rises by 1); hero level, xp and the
\* other skills keep their values and exactly one OnSkillUpgrade /
\* OnSkillDowngrade is emitted, after the change.
C14_SkillChangeFrame ==
    LET Points(h) == h.level - h.skills["Bonus_Health"] - h.skills["MySkill"]
        Frame(delta, kind) ==
            /\ hero.skills[call.skill] = call.pre.skills[call.skill] + delta
            /\ \A s \in SkillIds \ {call.skill} :
                  hero.skills[s] = call.pre.skills[s]
            /\ hero.level = call.pre.level
            /\ hero.xp = call.pre.xp
            /\ hero.max_level = call.pre.max_level
            /\ Points(hero) = Points(call.pre) - delta
            /\ emitted = <<[hero |-> hero,
                            kind |-> kind,
                            levels |-> 0,
                            skill |-> call.skill]>>
    IN  /\ Returned("upgrade_skill") => Frame(1, "OnSkillUpgrade")
        /\ Returned("downgrade_skill") => Frame(-1, "OnSkillDowngrade")

\* a downgrade_skill succeeded while the other skill was above 0
C14_Witness ==
    /\ Returned("downgrade_skill")
    /\ Len(emitted) = 1
    /\ \E s \in SkillIds \ {call.skill} : hero.skills[s] > 0

\* C20: hero.xp = V has exactly the effect of give_xp(V - xp) when V > xp,
\* of take_xp(xp - V) when V < xp, and no effect and no notification when
\* V = xp; one assignment never runs both.
C20_XpAssignment ==
    call.op = "xp_setter" =>
        LET V == call.amount
            old == call.pre.xp
            one == IF V > old THEN give_xp(call.pre, V - old)
                   ELSE IF V < old THEN take_xp(call.pre, old - V)
                   ELSE [hero |-> call.pre, emitted |-> <<>>, raised |-> FALSE]
        IN  /\ hero = one.hero
            /\ emitted = one.emitted
            /\ call.raised = one.raised
            /\ Len(emitted) <= 1

\* an assignment below the current xp took a level, which left xp above the
\* assigned value
C20_Witness ==
    /\ Returned("xp_setter")
    /\ call.amount < call.pre.xp
    /\ hero.level < call.pre.level
    /\ hero.xp > call.amount

\* C15: execute_skills never runs Skill.execute, and so no callback, of a
\* skill at level 0, whether or not its registry has the event name; this
\* holds from the first dispatch after a downgrade to level 0 on.
C15_LevelZeroSkillsInert ==
    call.op = "execute_skills" =>
        \A i \in 1..Len(invoked) : hero.skills[invoked[i].skill] > 0

\* the skill just downgraded to level 0 registers the dispatched event and
\* was passed over, while the other skill ran its callback
C15_Witness ==
    /\ call.op = "execute_skills"
    /\ prev.op = "downgrade_skill"
    /\ hero.skills[prev.skill] = 0
    /\ call.event \in DOMAIN event_callbacks(prev.skill)
    /\ Len(invoked) = 1
    /\ invoked[1].skill # prev.skill
    /\ Len(invoked[1].callbacks) = 1

\* C16: execute_skills calls Skill.execute exactly once for each owned
\* skill with level > 0, in declaration order; Skill.execute runs the
\* registered callback exactly once if the event name is in the variant's
\* registry and nothing otherwise.
C16_ExecuteOncePerSkillInOrder ==
    call.op = "execute_skills" =>
        LET Registered(s, e) ==
                \/ s = "Bonus_Health" /\ e = "player_spawn"
                \/ s = "MySkill"
                     /\ e \in {"player_spawn", "player_attack", "player_jump"}
            Callback(s, e) ==
                IF s = "Bonus_Health" THEN "_boost_health"
                ELSE IF e = "player_jump" THEN "another_callback"
                ELSE "my_callback"
            active == SelectSeq(<<"Bonus_Health", "MySkill">>,
                                LAMBDA s : hero.skills[s] > 0)
        IN  /\ Len(invoked) = Len(active)
            /\ \A i \in 1..Len(invoked) :
                  /\ invoked[i].skill = active[i]
                  /\ invoked[i].event = call.event
                  /\ invoked[i].callbacks =
                        IF Registered(active[i], call.event)
                        THEN <<Callback(active[i], call.event)>>
                        ELSE <<>>

\* both skills are above level 0 and were executed in declaration order for
\* an event only the second registers
C16_Witness ==
    /\ call.op = "execute_skills"
    /\ call.event = "player_jump"
    /\ Len(invoked) = 2
    /\ invoked[1].skill = "Bonus_Health" /\ invoked[1].callbacks = <<>>
    /\ invoked[2].skill = "MySkill"
    /\ invoked[2].callbacks = <<"another_callback">>

\* C17: a skill class in which two different callbacks claim the same event
\* name is rejected when the class is defined.
C17_ConflictRejected ==
    LET Claims(i, e) ==
            \E j \in 1..Len(variant.attrs[i].events) :
                variant.attrs[i].events[j] = e
        Conflict ==
            \E i, k \in 1..Len(variant.attrs) : \E e \in DecoratorEvents :
                i # k /\ Claims(i, e) /\ Claims(k, e)
    IN  (variant.defined /\ Conflict) => variant.raised

\* C13: a hero cannot operate on a skill instance it does not hold, an
\* instance of one of its own variants held by another hero included:
\* can_upgrade_skill and can_downgrade_skill answer false, upgrade_skill and
\* downgrade_skill fail, and the instance's level stays as it was.
C13_ForeignSkillUntouched ==
    [][/\ call'.op \in {"upgrade_foreign_skill", "downgrade_foreign_skill"}
            => call'.raised /\ foreign' = foreign
       /\ call'.op \in {"can_upgrade_foreign_skill",
                        "can_downgrade_foreign_skill"}
            => ~call'.result /\ foreign' = foreign]_vars

\* C18: entity.level = V fails when V < 0 or V > max_level and leaves the
\* level as it was; any other V is committed.  Checked for the hero's level
\* and for the level of each of its skills.
C18_LevelSetter ==
    LET V == call.amount
        Setter(before, after, max_level) ==
            IF V < 0 \/ V > max_level
            THEN call.raised /\ after = before
            ELSE ~call.raised /\ after = V
    IN  /\ call.op = "level_setter" =>
              /\ Setter(call.pre.level, hero.level, call.pre.max_level)
              /\ hero.skills = call.pre.skills
              /\ hero.xp = call.pre.xp
        /\ call.op = "skill_level_setter" =>
              /\ Setter(call.pre.skills[call.skill], hero.skills[call.skill],
                        IF call.skill = "Bonus_Health" THEN SkillFiniteMax
                        ELSE Inf)
              /\ hero.level = call.pre.level
              /\ \A s \in SkillIds \ {call.skill} :
                    hero.skills[s] = call.pre.skills[s]

\* a level above the hero's finite max_level was assigned and refused, and
\* the hero kept the positive level it had
C18_Witness ==
    /\ call.op = "level_setter"
    /\ call.raised
    /\ call.amount > hero.max_level
    /\ hero.level = call.pre.level
    /\ hero.level > 0

\* C19: constructing an entity with level L succeeds only if
\* 0 <= L <= max_level, heroes restored from persisted values included.
C19_ConstructorValidates ==
    /\ (call.op = "construct" /\ ~call.raised) =>
           (0 <= hero.level /\ hero.level <= hero.max_level)
    /\ (call.op = "entity_init" /\ ~call.raised) =>
           /\ 0 <= foreign.level
           /\ foreign.level <= entity_max_level(foreign.class_id)

\* C30: xp is conserved by levelling.  With T(level, xp) = xp + the sum over
\* k in 0..level-1 of (80 + 15*k), every give_xp(a) that returns raises T by
\* exactly a and every take_xp(a) that returns lowers T by exactly a, however
\* many levels are gained or lost, at max_level and with negative xp at
\* level 0 alike.
C30_XpConserved ==
    LET T(h) == h.xp + 80 * h.level + 15 * ((h.level * (h.level - 1)) \div 2)
    IN  /\ Returned("give_xp") => T(hero) = T(call.pre) + call.amount
        /\ Returned("take_xp") => T(hero) = T(call.pre) - call.amount

\* a take_xp that took a hero down from its finite max_level by two levels
C30_Witness ==
    /\ Returned("take_xp")
    /\ call.pre.level = call.pre.max_level
    /\ call.pre.max_level # Inf
    /\ hero.level = call.pre.level - 2
    /\ call.amount > 0

\* C21: a two-subject event whose attacker is absent (0) or is the victim is
\* a no-op of the dispatcher: no hero has execute_skills called.
C21_NoInstigatorNoDispatch ==
    (/\ event.name \in RawInteractionEvents
     /\ event.attacker = 0 \/ event.attacker = event.userid)
        => dispatched = <<>> /\ ~event.raised

\* a player_death of a playing player with an active hero by its own hand
C21_Witness ==
    /\ event.name = "player_death"
    /\ event.attacker = event.userid
    /\ players[event.userid].hero # NoneHero
    /\ players[event.userid].team = 2
    /\ dispatched = <<>>

\* C22: for a two-subject event with a present attacker other than the
\* victim, the attacker's active hero gets exactly one execute_skills call
\* with the instigator name (player_death -> player_kill, player_hurt ->
\* player_attack) and player = attacker, then the victim's active hero gets
\* exactly one with the target name (player_death -> player_death,
\* player_hurt -> player_victim) and player = victim, and there is no other
\* call.
C22_BothPerspectives ==
    (/\ event.name \in {"player_death", "player_hurt"}
     /\ event.attacker # 0
     /\ event.attacker # event.userid
     /\ players[event.attacker].hero # NoneHero
     /\ players[event.userid].hero # NoneHero)
        => /\ ~event.raised
           /\ dispatched =
                 <<[hero |-> players[event.attacker].hero,
                    event |-> IF event.name = "player_death"
                              THEN "player_kill" ELSE "player_attack",
                    player |-> event.attacker],
                   [hero |-> players[event.userid].hero,
                    event |-> IF event.name = "player_death"
                              THEN "player_death" ELSE "player_victim",
                    player |-> event.userid]>>

\* a player_hurt dispatched as player_attack and player_victim
C22_Witness ==
    /\ event.name = "player_hurt"
    /\ Len(dispatched) = 2
    /\ dispatched[1].event = "player_attack"
    /\ dispatched[2].event = "player_victim"
    /\ dispatched[1].hero # dispatched[2].hero

C24_AlwaysForwarded ==
    (/\ event.name \in IndividualEvents
     /\ players[event.userid].hero # NoneHero)
        => /\ ~event.raised
           /\ dispatched = <<[hero |-> players[event.userid].hero,
                              event |-> event.name,
                              player |-> event.userid]>>

\* C24 amended: a single-subject event of a player with an active hero is
\* forwarded exactly once to that hero, with the event's own name and
\* player = the acting player, and to no other hero, when the player is on
\* team 2 or 3; for a player on another team nothing is forwarded.
C24_ForwardedOnPlayingTeams ==
    (/\ event.name \in IndividualEvents
     /\ players[event.userid].hero # NoneHero)
        => /\ ~event.raised
           /\ dispatched =
                 IF players[event.userid].team \in {2, 3}
                 THEN <<[hero |-> players[event.userid].hero,
                         event |-> event.name,
                         player |-> event.userid]>>
                 ELSE <<>>

\* a spectator's player_spawn was not forwarded although it has a hero
C24_Witness ==
    /\ event.name = "player_spawn"
    /\ players[event.userid].team = 1
    /\ players[event.userid].hero # NoneHero
    /\ dispatched = <<>>

\* C26: an event that refers to a player whose hero cannot be resolved (a
\* player with no active hero) is skipped by the dispatcher: no error, and
\* nothing dispatched.
C26_UnresolvedSkipped ==
    LET Unresolved(p) == p # 0 /\ players[p].hero = NoneHero
    IN  \/ event.name \in IndividualEvents /\ Unresolved(event.userid)
        \/ /\ event.name \in InteractionEvents
           /\ Unresolved(event.userid) \/ Unresolved(event.attacker)
        => ~event.raised /\ dispatched = <<>>

\* C25: the active hero of a player is always one of the heroes in the
\* player's own heroes mapping, after creation and after any player.hero
\* assignments and change-hero selections; assigning a value that is no hero
\* or a hero the player does not own fails and leaves the active hero as it
\* was.
C25_ActiveHeroOwned ==
    /\ \A index \in 1..Len(players) :
          /\ players[index].hero.owner = index
          /\ players[index].hero.class_id \in HeroIds(players[index].heroes)
    /\ (/\ event.name = "hero_setter"
        /\ \/ event.arg.owner # event.userid
           \/ event.arg.class_id \notin HeroIds(players[event.userid].heroes))
          => event.raised

\* C29: at player creation every persisted hero of a known class is added
\* with its persisted level and xp, and a hero class absent from the
\* persisted data is added, at level 0 and xp 0, if and only if its
\* required_level <= the sum of the levels of the heroes loaded from the
\* persisted data.  Stated for creations that return a player.
C29_HeroesAtCreation ==
    (event.name = "new_player" /\ ~event.raised) =>
        LET rows == event.arg.rows
            heroes == players[event.userid].heroes
            Known == {"Hero_A", "Hero_B", "Hero_C"}
            Required(c) == IF c = "Hero_A" THEN 0
                           ELSE IF c = "Hero_B" THEN 1 ELSE 3
            Level(c) == IF \E i \in 1..Len(rows) : rows[i].class_id = c
                        THEN (CHOOSE r \in {rows[i] : i \in 1..Len(rows)} :
                                  r.class_id = c).level
                        ELSE 0
            total == Level("Hero_A") + Level("Hero_B") + Level("Hero_C")
            Has(h) == \E i \in 1..Len(heroes) : heroes[i] = h
        IN  /\ \A i \in 1..Len(rows) :
                  rows[i].class_id \in Known => Has(rows[i])
            /\ \A c \in Known \ HeroIds(rows) :
                  /\ c \in HeroIds(heroes) <=> Required(c) <= total
                  /\ c \in HeroIds(heroes)
                        => Has([class_id |-> c, level |-> 0, xp |-> 0])
            /\ HeroIds(heroes) \subseteq Known
            /\ \A i, k \in 1..Len(heroes) :
                  heroes[i].class_id = heroes[k].class_id => i = k

\* a player created from persisted Hero_A and Hero_B whose levels add up to
\* the required_level of Hero_C, which it got, next to a dropped Hero_X
C29_Witness ==
    /\ event.name = "new_player"
    /\ ~event.raised
    /\ HeroIds(event.arg.rows) = {"Hero_A", "Hero_B", "Hero_X"}
    /\ calculate_total_level(load_heroes(event.arg.rows)) = 3
    /\ HeroIds(players[event.userid].heroes) = {"Hero_A", "Hero_B", "Hero_C"}

\* the declarations so far: one made for a class object already in
\* skill_classes was rejected, every other appended its class
DeclarationsChecked ==
    LET done == roster.done
        First(i) == \A k \in 1..(i - 1) : done[k] # done[i]
        declared == SelectSeq([i \in 1..Len(done) |-> <<i, done[i]>>],
                              LAMBDA e : First(e[1]))
    IN  /\ done # <<>> => (roster.raised <=> ~First(Len(done)))
        /\ Len(roster.skill_classes) = Len(declared)
        /\ \A i \in 1..Len(declared) :
              roster.skill_classes[i] = declared[i][2]

GivenAtConstruction(skills, classes) ==
    LET id(i) == Entity_class_id(classes[i])
        First(i) == \A k \in 1..(i - 1) : id(k) # id(i)
        Last(i) == \A k \in (i + 1)..Len(classes) : id(k) # id(i)
        firsts == SelectSeq([i \in 1..Len(classes) |-> i], First)
    IN  /\ Len(skills) = Len(firsts)
        /\ \A j \in 1..Len(firsts) :
              \E i \in 1..Len(classes) :
                  /\ Last(i)
                  /\ id(i) = id(firsts[j])
                  /\ skills[j] = classes[i]

C31_Normalised ==
    /\ hero.level < hero.max_level => hero.xp < 80 + 15 * hero.level
    /\ hero.level > 0 => hero.xp >= 0

\* a take_xp took a hero down several levels and stopped above level 0, on
\* an xp that the subtraction alone would have left negative
C31_Witness ==
    /\ Returned("take_xp")
    /\ hero.level > 0
    /\ hero.level <= call.pre.level - 2
    /\ call.pre.xp - call.amount < 0
    /\ hero.xp > 0

\* the one normalised (level, xp) of a hero whose experience, quotas of its
\* levels included, is `total`
NetReference(total, max_level) ==
    IF total < 0 THEN [level |-> 0, xp |-> total]
    ELSE LET n == GiveRefLevel(0, total, max_level)
         IN  [level |-> n, xp |-> total - QuotaSum(n)]

\* C32: the (level, xp) a hero ends on depends only on the net sum of the
\* amounts given and taken: it is the normalised state of its total
\* experience; give_xp(a) then give_xp(b) ends where give_xp(a + b) ends,
\* and give_xp(a) then take_xp(a) ends on the (level, xp) before the two,
\* whatever levels the grant crossed and also when it reached max_level.
C32_NetSumDecides ==
    /\ [level |-> hero.level, xp |-> hero.xp]
          = NetReference(TotalXp(hero), hero.max_level)
    /\ (Returned("give_xp") /\ prev.op = "give_xp" /\ ~prev.raised) =>
          LET L == prev.pre.level
              total == prev.pre.xp + prev.amount + call.amount
              n == GiveRefLevel(L, total, hero.max_level)
          IN  /\ hero.level = n
              /\ hero.xp = total - (QuotaSum(n) - QuotaSum(L))
    /\ (/\ Returned("take_xp")
        /\ prev.op = "give_xp" /\ ~prev.raised
        /\ prev.amount = call.amount) =>
          /\ hero.level = prev.pre.level
          /\ hero.xp = prev.pre.xp

\* give_xp(a) took a hero up two levels onto its finite max_level, with xp
\* left over, and the take_xp(a) after it has returned
C32_Witness ==
    /\ Returned("take_xp")
    /\ prev.op = "give_xp" /\ ~prev.raised
    /\ prev.amount = call.amount
    /\ call.pre.level = call.pre.max_level
    /\ call.pre.level >= prev.pre.level + 2
    /\ call.pre.xp > 0
    /\ hero.level = prev.pre.level

\* C33: while a hero is only given xp, assigned a higher xp and has skills
\* upgraded and downgraded, the sum of its skill levels never exceeds its
\* level: skill_points stays >= 0.
C33_PointsKeptWhileGaining ==
    used_points(hero.skills, 1) <= hero.level

\* an upgrade_skill spent the last point of a hero with several levels,
\* both skills raised
C33_Witness ==
    /\ Returned("upgrade_skill")
    /\ hero.level >= 2
    /\ skill_points(hero) = 0
    /\ \A s \in SkillIds : hero.skills[s] > 0

\* C34: a skill stays on level 0 while the hero's level is below the skill's
\* required_level: for such a skill can_upgrade_skill answers false,
\* upgrade_skill fails, and a selection in the spend-skills menu upgrades
\* nothing.
C34_RequiredLevelGatesUpgrade ==
    /\ \A s \in SkillIds :
          hero.level < skill_required_level(s) => hero.skills[s] = 0
    /\ (/\ call.op \in {"can_upgrade_skill", "upgrade_skill",
                         "spend_skills_menu_select"}
        /\ skill_required_level(call.skill) > call.pre.level) =>
          /\ hero.skills[call.skill] = call.pre.skills[call.skill]
          /\ call.op = "can_upgrade_skill" => ~call.result
          /\ call.op = "upgrade_skill" => call.raised

\* C35: give_xp and take_xp terminate for every amount >= 0 and every hero
\* with an integer level and xp: a call that entered its loop eventually
\* returns or fails; from a level >= 0 each iteration of give_xp's loop
\* consumes at least 80 xp and raises the level by 1, each iteration of
\* take_xp's loop lowers the level by 1 or fails; and a call that returned
\* has sent at most one notification, and ends where the whole call does.
C35_CallsTerminate ==
    /\ (loop.state = "looping") ~> (loop.state \in {"returned", "raised"})
    /\ [][(loop.state = "looping" /\ loop'.state # "returned") =>
            /\ loop.op = "give_xp" =>
                  /\ loop'.level = loop.level + 1
                  /\ loop.level >= 0 => loop'.xp <= loop.xp - 80
            /\ loop.op = "take_xp" =>
                  \/ loop'.state = "raised" /\ loop'.level = loop.level
                  \/ loop'.state = "looping"
                         /\ loop'.level = loop.level - 1]_vars
    /\ [](loop.state = "returned" =>
            LET self == [max_level |-> loop.max_level,
                         level |-> loop.initial_level,
                         skills |-> [s \in SkillIds |-> 0],
                         xp |-> loop.initial_xp]
                whole == IF loop.op = "give_xp"
                         THEN give_xp(self, loop.amount)
                         ELSE take_xp(self, loop.amount)
            IN  /\ loop.emitted <= 1
                /\ loop.emitted = Len(whole.emitted)
                /\ ~whole.raised
                /\ loop.level = whole.hero.level
                /\ loop.xp = whole.hero.xp)

\* a give_xp whose loop ran at least three times has returned, one
\* notification sent
C35_Witness ==
    /\ loop.state = "returned"
    /\ loop.op = "give_xp"
    /\ loop.level >= loop.initial_level + 3
    /\ loop.emitted = 1

\* C36: a player_death with a present attacker other than the victim gives
\* the attacker's active hero 45 xp for a headshot and 30 xp otherwise, by
\* the level-up rule of give_xp, and leaves every other hero, the victim's
\* and the attacker's other heroes, as it was; with no attacker or the
\* attacker the victim, no hero changes.
C36_KillXp ==
    event.name = "player_death" =>
        LET before == event.arg.before
            attacker == event.arg.attacker
            rewarded == attacker # 0 /\ attacker # event.userid
            amount == IF event.arg.headshot THEN 45 ELSE 30
        IN  /\ ~event.raised
            /\ \A i \in 1..NumPlayers :
                  /\ Len(players[i].heroes) = Len(before[i].heroes)
                  /\ players[i].hero = before[i].hero
                  /\ \A j \in 1..Len(before[i].heroes) :
                        LET old == before[i].heroes[j]
                            new == players[i].heroes[j]
                        IN  IF /\ rewarded
                               /\ i = attacker
                               /\ before[i].hero = HeroRef(i, old.class_id)
                            THEN LET total == old.xp + amount
                                     n == GiveRefLevel(old.level, total, Inf)
                                 IN  /\ new.class_id = old.class_id
                                     /\ new.level = n
                                     /\ new.xp = total - (QuotaSum(n)
                                                   - QuotaSum(old.level))
                            ELSE new = old

\* a headshot kill took the attacker's active hero, the second of its two
\* heroes, over a level boundary
C36_Witness ==
    /\ event.name = "player_death"
    /\ ~event.raised
    /\ event.arg.headshot
    /\ event.arg.attacker \notin {0, event.userid}
    /\ LET i == event.arg.attacker
       IN  /\ Len(players[i].heroes) = 2
           /\ players[i].hero = HeroRef(i, players[i].heroes[2].class_id)
           /\ players[i].heroes[2].level
                 > event.arg.before[i].heroes[2].level

\* C38: saved skill levels of different heroes of a player do not overwrite
\* each other: saving the skills of one hero leaves get_skills_data of
\* every other hero, of the same player too, as it was, and get_skills_data
\* of the saved hero returns the saved (class_id, level) pairs.
C38_SkillsKeptPerHero ==
    event.name = "save_skills" =>
        /\ get_skills_data(database, event.userid, event.arg.hero_id)
              = {<<event.arg.rows[i].class_id, event.arg.rows[i].level>> :
                    i \in 1..Len(event.arg.rows)}
        /\ \A steamid \in 1..NumPlayers : \A hero_id \in SavedHeroIds :
              <<steamid, hero_id>> # <<event.userid, event.arg.hero_id>> =>
                 get_skills_data(database, steamid, hero_id)
                    = get_skills_data(event.arg.before, steamid, hero_id)

\* C39: when a player is loaded, every persisted hero of a known class is
\* restored and every persisted skill level of a skill class in its roster
\* is applied, whatever the other rows are: a row of a removed hero or skill
\* class is skipped alone.
C39_RowsRestoredIndependently ==
    event.name = "new_player" =>
        /\ ~event.raised
        /\ \A i \in 1..Len(event.arg.rows) :
              LET row == event.arg.rows[i]
              IN  row.class_id \in CatalogueIds =>
                    \E j \in 1..Len(players[1].heroes) :
                       LET h == players[1].heroes[j]
                           saved == event.arg.skills_of[row.class_id]
                       IN  /\ h.class_id = row.class_id
                           /\ h.level = row.level /\ h.xp = row.xp
                           /\ \A k \in 1..Len(saved) :
                                 saved[k].class_id \in SkillIds =>
                                    h.skills[saved[k].class_id]
                                       = saved[k].level

\* C37: progress round-trips through a session: at the connect after a
\* disconnect every hero the player owned when disconnecting, the active
\* one and the others, is restored with the level, xp and skill levels it
\* had.
C37_ProgressRoundTrips ==
    (event.name = "new_player" /\ event.arg # <<>>) =>
        LET last == event.arg[1]
        IN  \A i \in 1..Len(last.heroes) :
               \E j \in 1..Len(players[1].heroes) :
                  players[1].heroes[j] = last.heroes[i]

====
